---- MODULE Spec2Model ----
(***************************************************************************)
(* Local persistence and backup/restore pipeline of the English            *)
(* visualizer: the IndexedDB image store (services/dbService.ts), the      *)
(* line-delimited backup codec (services/backupService.ts), the segmented  *)
(* SQLite snapshot codec and the reconciliation of an import with the      *)
(* application's sentence list (App.tsx).                                   *)
(*                                                                         *)
(* A JavaScript string is a sequence of one-character strings, a byte of   *)
(* a file is the ASCII character it encodes or the name of a byte of a     *)
(* multi-byte UTF-8 sequence.  A JavaScript value is a tagged record.      *)
(***************************************************************************)
EXTENDS Integers, Sequences, FiniteSets, TLC

\* ------------------------------------------------------------------------
\* JavaScript values
\* ------------------------------------------------------------------------

NL == "\n"
QUOTE == "\""
BSL == "\\"

Undefined == [t |-> "undefined"]
Null == [t |-> "null"]
Str(s) == [t |-> "str", v |-> s]
Num(n) == [t |-> "num", n |-> n]
Obj(fs) == [t |-> "obj", f |-> fs]

\* ToBoolean: what `if (x)`, `x && y`, `!x` and `x || y` test.
Truthy(v) ==
    CASE v.t = "undefined" -> FALSE
      [] v.t = "null" -> FALSE
      [] v.t = "str" -> v.v # <<>>
      [] v.t = "num" -> v.n # 0
      [] OTHER -> TRUE

\* Property read `data.name`; reading a property of null or undefined throws
\* a TypeError, which the callers test with Throws.
Get(data, name) ==
    IF data.t = "obj" /\ name \in DOMAIN data.f THEN data.f[name] ELSE Undefined

Throws(data) == data.t \in {"null", "undefined"}

\* Property names and string constants of the source, as character sequences.
K_type == <<"t", "y", "p", "e">>
K_id == <<"i", "d">>
K_text == <<"t", "e", "x", "t">>
K_base64 == <<"b", "a", "s", "e", "6", "4">>
K_version == <<"v", "e", "r", "s", "i", "o", "n">>
K_created == <<"c", "r", "e", "a", "t", "e", "d">>
K_count == <<"c", "o", "u", "n", "t">>
S_header == <<"h", "e", "a", "d", "e", "r">>
S_sentence == <<"s", "e", "n", "t", "e", "n", "c", "e">>
S_image == <<"i", "m", "a", "g", "e">>

\* ------------------------------------------------------------------------
\* JSON.stringify and JSON.parse
\* ------------------------------------------------------------------------

\* The concatenation of the strings ss[lo..hi], by halves.
RECURSIVE ConcatRange(_, _, _)
ConcatRange(ss, lo, hi) ==
    IF lo > hi THEN <<>>
    ELSE IF lo = hi THEN ss[lo]
    ELSE LET mid == (lo + hi) \div 2 IN
         ConcatRange(ss, lo, mid) \o ConcatRange(ss, mid + 1, hi)

Concat(ss) == ConcatRange(ss, 1, Len(ss))

EscapeChar(c) ==
    CASE c = QUOTE -> <<BSL, QUOTE>>
      [] c = BSL -> <<BSL, BSL>>
      [] c = NL -> <<BSL, "n">>
      [] OTHER -> <<c>>

Escape(s) ==
    IF \A i \in DOMAIN s : s[i] \notin {QUOTE, BSL, NL} THEN s
    ELSE Concat([i \in DOMAIN s |-> EscapeChar(s[i])])

DigitChars == <<"0", "1", "2", "3", "4", "5", "6", "7", "8", "9">>

RECURSIVE Digits(_)
Digits(n) ==
    IF n < 10 THEN <<DigitChars[n + 1]>>
    ELSE Digits(n \div 10) \o <<DigitChars[(n % 10) + 1]>>

StringifyValue(v) ==
    IF v.t = "str" THEN <<QUOTE>> \o Escape(v.v) \o <<QUOTE>>
    ELSE IF v.t = "num" THEN Digits(v.n)
    ELSE <<"n", "u", "l", "l">>

\* The members of an object literal, a sequence of <<name, value>> in the
\* order of the literal; a member whose value is undefined is left out.
RECURSIVE StringifyMembers(_, _)
StringifyMembers(members, first) ==
    IF members = <<>> THEN <<>>
    ELSE LET m == Head(members) IN
         IF m[2].t = "undefined" THEN StringifyMembers(Tail(members), first)
         ELSE (IF first THEN <<>> ELSE <<",">>)
              \o <<QUOTE>> \o Escape(m[1]) \o <<QUOTE, ":">> \o StringifyValue(m[2])
              \o StringifyMembers(Tail(members), FALSE)

JSONstringify(members) == <<"{">> \o StringifyMembers(members, TRUE) \o <<"}">>

IsDigit(c) == c \in {"0", "1", "2", "3", "4", "5", "6", "7", "8", "9"}
DigitVal(c) == CHOOSE n \in 0..9 : DigitChars[n + 1] = c
IsWs(c) == c \in {" ", "\t", "\r", NL}

Fail == [ok |-> FALSE, val |-> Undefined, next |-> 0]
Parsed(v, i) == [ok |-> TRUE, val |-> v, next |-> i]

RECURSIVE SkipWs(_, _)
SkipWs(s, i) == IF i <= Len(s) /\ IsWs(s[i]) THEN SkipWs(s, i + 1) ELSE i

\* The characters of a string literal from position i, after its opening quote.
RECURSIVE ScanString(_, _, _)
ScanString(s, i, acc) ==
    IF i > Len(s) THEN Fail
    ELSE IF s[i] = QUOTE THEN Parsed(Str(acc), i + 1)
    ELSE IF s[i] = BSL THEN
        IF i + 1 > Len(s) THEN Fail
        ELSE IF s[i + 1] \in {QUOTE, BSL, "/"}
            THEN ScanString(s, i + 2, Append(acc, s[i + 1]))
        ELSE IF s[i + 1] = "n" THEN ScanString(s, i + 2, Append(acc, NL))
        ELSE IF s[i + 1] = "t" THEN ScanString(s, i + 2, Append(acc, "\t"))
        ELSE IF s[i + 1] = "r" THEN ScanString(s, i + 2, Append(acc, "\r"))
        ELSE Fail
    ELSE IF s[i] \in {NL, "\t", "\r"} THEN Fail
    ELSE ScanString(s, i + 1, Append(acc, s[i]))

RECURSIVE ScanDigits(_, _, _)
ScanDigits(s, i, n) ==
    IF i <= Len(s) /\ IsDigit(s[i]) THEN ScanDigits(s, i + 1, 10 * n + DigitVal(s[i]))
    ELSE Parsed(Num(n), i)

ParseNumber(s, i) ==
    IF s[i] = "0" /\ i + 1 <= Len(s) /\ IsDigit(s[i + 1]) THEN Fail
    ELSE ScanDigits(s, i, 0)

RECURSIVE ParseValue(_, _)
RECURSIVE ParseMembers(_, _, _)
ParseValue(s, i0) ==
    LET i == SkipWs(s, i0) IN
    IF i > Len(s) THEN Fail
    ELSE IF s[i] = QUOTE THEN ScanString(s, i + 1, <<>>)
    ELSE IF IsDigit(s[i]) THEN ParseNumber(s, i)
    ELSE IF s[i] = "{" THEN
        LET j == SkipWs(s, i + 1) IN
        IF j <= Len(s) /\ s[j] = "}" THEN Parsed(Obj(<<>>), j + 1)
        ELSE ParseMembers(s, j, <<>>)
    ELSE IF i + 3 <= Len(s) /\ SubSeq(s, i, i + 3) = <<"n", "u", "l", "l">>
        THEN Parsed(Null, i + 4)
    ELSE Fail

\* The members of an object from position i, where a name is expected;
\* fields holds the members read so far (a repeated name keeps the last).
ParseMembers(s, i, fields) ==
    IF i > Len(s) \/ s[i] # QUOTE THEN Fail
    ELSE LET k == ScanString(s, i + 1, <<>>) IN
    IF ~k.ok THEN Fail
    ELSE LET c == SkipWs(s, k.next) IN
    IF c > Len(s) \/ s[c] # ":" THEN Fail
    ELSE LET v == ParseValue(s, c + 1) IN
    IF ~v.ok THEN Fail
    ELSE LET e == SkipWs(s, v.next)
             fs == [n \in (DOMAIN fields) \cup {k.val.v} |->
                        IF n = k.val.v THEN v.val ELSE fields[n]]
    IN  IF e > Len(s) THEN Fail
        ELSE IF s[e] = "}" THEN Parsed(Obj(fs), e + 1)
        ELSE IF s[e] = "," THEN ParseMembers(s, SkipWs(s, e + 1), fs)
        ELSE Fail

\* JSON.parse(text): ok is FALSE where the source's call throws a SyntaxError.
JSONparse(text) ==
    LET r == ParseValue(text, 1) IN
    IF r.ok /\ SkipWs(text, r.next) > Len(text)
    THEN [ok |-> TRUE, val |-> r.val]
    ELSE [ok |-> FALSE, val |-> Undefined]

\* ------------------------------------------------------------------------
\* UTF-8: what writing a string to a file or a Blob encodes, and what the
\* TextDecoder of importBackup decodes.  "E9" (U+00E9, e with acute accent) is the one non-ASCII
\* character of the model, the bytes C3 A9; FFFD is the replacement
\* character U+FFFD.
\* ------------------------------------------------------------------------

EncodeChar(c) == IF c = "E9" THEN <<"C3", "A9">> ELSE <<c>>

Encode(text) ==
    IF \A i \in DOMAIN text : text[i] # "E9" THEN text
    ELSE Concat([i \in DOMAIN text |-> EncodeChar(text[i])])

\* decoder.decode(bytes, { stream: true }): pending is the incomplete
\* sequence kept from the previous call.  A lead byte C3 is always held
\* back; the byte after it completes it (A9) or makes it a replacement
\* character.
DecodeByte(bytes, i, held) ==
    LET b == bytes[i] IN
    CASE b = "A9" -> IF held THEN <<"E9">> ELSE <<"FFFD">>
      [] b = "C3" -> IF held THEN <<"FFFD">> ELSE <<>>
      [] OTHER -> IF held THEN <<"FFFD", b>> ELSE <<b>>

\* decoder.decode(bytes) without the stream option: nothing is kept for the
\* next call, an incomplete sequence at the end becomes a replacement
\* character.
DecodeNoStream(pending, bytes) ==
    IF bytes = <<>> THEN [text |-> <<>>, pending |-> <<>>]
    ELSE [text |-> Concat([i \in DOMAIN bytes |->
                      DecodeByte(bytes, i,
                                 IF i = 1 THEN FALSE ELSE bytes[i - 1] = "C3")])
                   \o (IF bytes[Len(bytes)] = "C3" THEN <<"FFFD">> ELSE <<>>),
          pending |-> <<>>]

Decode(pending, bytes) ==
    IF bytes = <<>> THEN [text |-> <<>>, pending |-> pending]
    ELSE IF pending = <<>> /\ \A i \in DOMAIN bytes : bytes[i] \notin {"C3", "A9"}
        THEN [text |-> bytes, pending |-> <<>>]
    ELSE [text |-> Concat([i \in DOMAIN bytes |->
                      DecodeByte(bytes, i,
                                 IF i = 1 THEN pending # <<>> ELSE bytes[i - 1] = "C3")]),
          pending |-> IF bytes[Len(bytes)] = "C3" THEN <<"C3">> ELSE <<>>]

\* ------------------------------------------------------------------------
\* The image store (IndexedDB object store "images")
\* ------------------------------------------------------------------------

\* Every key of the model in IndexedDB's key order, which is the order
\* getAllKeys() lists them in.
MaxKeys == 120

\* The i-th key of a large store: "k001", "k002", ...
BulkKey(i) ==
    Str(<<"k", DigitChars[((i \div 100) % 10) + 1],
          DigitChars[((i \div 10) % 10) + 1], DigitChars[(i % 10) + 1]>>)

KeyUniverse ==
    <<Str(<<>>), Str(<<"a">>), Str(<<"b">>)>> \o [i \in 1..MaxKeys |-> BulkKey(i)]

HasKey(st, k) == k \in DOMAIN st

GetAllKeys(st) == SelectSeq(KeyUniverse, LAMBDA k : HasKey(st, k))

GetImage(st, k) == IF HasKey(st, k) /\ Truthy(st[k]) THEN st[k] ELSE Null

\* IndexedDB put replaced by a write that extends the value already there.
SaveImageExtends(st, k, v) ==
    [x \in (DOMAIN st) \cup {k} |->
        IF x # k THEN st[x]
        ELSE IF k \in DOMAIN st THEN Str(st[k].v \o v.v) ELSE v]

SaveImage(st, k, v) == [x \in (DOMAIN st) \cup {k} |-> IF x = k THEN v ELSE st[x]]

DeleteImage(st, k) == [x \in (DOMAIN st) \ {k} |-> st[x]]

\* Math.floor in the place of Math.round.
PercentFloor(done, total) == (100 * done) \div total

\* Math.round(100 * done / total), for total > 0.
Percent(done, total) == (200 * done + total) \div (2 * total)

\* ------------------------------------------------------------------------
\* State
\* ------------------------------------------------------------------------

VARIABLES
    store,      \* the image store: key -> value
    sentences,  \* App: the sentence list (useState)
    files,      \* the backup files the user can pick in the import dialog
    writable,   \* the FileSystemWritableFileStream of a direct-write export
    ex,         \* exportBackup: its locals, position and outcome
    im,         \* handleBackupImport / importBackup: locals, position, outcome
    sq,         \* exportToSQLiteChunks: the generator's locals and position
    si,         \* importFromSQLite: its locals, position and outcome
    calls,      \* dbService called directly: the calls made and the last result
    bt,         \* startBatch: the generation status, its locals and position
    sy          \* the sync effect of App: its position and the keys it read

vars == <<store, sentences, files, writable, ex, im, sq, si, calls, bt, sy>>

Sentence(id, text, status, url) ==
    [id |-> id, english_text |-> text, status |-> status, imageUrl |-> url]

Range(seq) == {seq[i] : i \in DOMAIN seq}

\* ------------------------------------------------------------------------
\* exportBackup (services/backupService.ts)
\* ------------------------------------------------------------------------

ReportEvery == 50
BackupVersion == 2

\* new Date().toISOString(), shortened.
Timestamps == {<<"T">>}

HeaderRecord(created, count) ==
    << <<K_type, Str(S_header)>>, <<K_version, Num(BackupVersion)>>,
       <<K_created, Str(created)>>, <<K_count, Num(count)>> >>

SentenceRecord(s) ==
    << <<K_type, Str(S_sentence)>>, <<K_id, s.id>>, <<K_text, s.english_text>> >>

ImageRecord(id, base64) ==
    << <<K_type, Str(S_image)>>, <<K_id, id>>, <<K_base64, base64>> >>

\* JSON.stringify(record) + '\n'
Line(record) == JSONstringify(record) \o <<NL>>

\* The header counting every item.
HeaderStrCountsItems(e) == Line(HeaderRecord(e.created, e.totalItems))

HeaderStr(e) == Line(HeaderRecord(e.created, e.totalImages))

\* processed++; reportProgress();
ReportProgress(e) ==
    LET p == e.processed + 1 IN
    [e EXCEPT !.processed = p,
              !.reported =
                  IF e.totalItems > 0 /\ (p % ReportEvery = 0 \/ p = e.totalItems)
                  THEN Append(@, Percent(p, e.totalItems))
                  ELSE @,
              !.reportedAt =
                  IF e.totalItems > 0 /\ (p % ReportEvery = 0 \/ p = e.totalItems)
                  THEN Append(@, p)
                  ELSE @]

ExIdle ==
    [pc |-> "idle", sentences |-> <<>>, totalImages |-> 0, totalItems |-> 0,
     created |-> <<>>, processed |-> 0, reported |-> <<>>, i |-> 1,
     itKeys |-> <<>>, chunks |-> <<>>, via |-> "none",
     result |-> "none", snapshot |-> <<>>, runs |-> 0, deletes |-> 0,
     aborted |-> FALSE, fellBack |-> FALSE, start |-> <<>>,
     reportedAt |-> <<>>]

NoWritable == [open |-> FALSE, data |-> <<>>]

MaxExports == 1

\* Lines 13-32: the keys are listed, the header is built, the delivery path
\* is chosen by supportsFileSystemAccess().  snapshot keeps the store as it
\* was when the export began, start the files and the writable as they were.
ExportBackup ==
    /\ ex.pc \in {"idle", "done"}
    /\ im.pc \in {"idle", "merged", "synced", "failed"}
    /\ ex.runs < MaxExports
    /\ \E supports \in BOOLEAN, created \in Timestamps :
        LET keys == GetAllKeys(store) IN
        ex' = [ExIdle EXCEPT
                  !.pc = IF supports THEN "picker" ELSE "blob",
                  !.sentences = sentences,
                  !.totalImages = Len(keys),
                  !.totalItems = Len(sentences) + Len(keys),
                  !.created = created,
                  !.snapshot = store,
                  !.start = <<files, writable>>,
                  !.runs = ex.runs + 1,
                  !.deletes = ex.deletes]
    /\ UNCHANGED <<store, sentences, files, writable, im, sq, si, calls, bt, sy>>

\* Lines 35-43: showSaveFilePicker and createWritable.
PickerOpens ==
    /\ ex.pc = "picker"
    /\ ex' = [ex EXCEPT !.pc = "header"]
    /\ writable' = [open |-> TRUE, data |-> <<>>]
    /\ UNCHANGED <<store, sentences, files, im, sq, si, calls, bt, sy>>

\* The AbortError of the picker treated like any other failure.
PickerAbortsFallsBack ==
    /\ ex.pc = "picker"
    /\ ex' = [ex EXCEPT !.pc = "blob", !.aborted = TRUE]
    /\ UNCHANGED <<store, sentences, files, writable, im, sq, si, calls, bt, sy>>

\* Line 66: the user cancels the picker (AbortError).  aborted records it.
PickerAborts ==
    /\ ex.pc = "picker"
    /\ ex' = [ex EXCEPT !.pc = "done", !.result = "resolved", !.aborted = TRUE]
    /\ UNCHANGED <<store, sentences, files, writable, im, sq, si, calls, bt, sy>>

\* Lines 65-68: any other failure of a direct-write step falls through to
\* the blob path.  fellBack records it.
DirectFails ==
    /\ \/ ex.pc \in {"picker", "header"}
       \/ ex.pc = "sentences" /\ ex.i <= Len(ex.sentences)
       \/ ex.pc = "images"
             /\ (IF ex.itKeys = <<>> THEN TRUE
                 ELSE GetImage(store, Head(ex.itKeys)) # Null)
    /\ ex' = [ex EXCEPT !.pc = "blob", !.fellBack = TRUE]
    /\ UNCHANGED <<store, sentences, files, writable, im, sq, si, calls, bt, sy>>

\* Line 44.
WriteHeader ==
    /\ ex.pc = "header"
    /\ writable' = [writable EXCEPT !.data = @ \o Encode(HeaderStr(ex))]
    /\ ex' = [ex EXCEPT !.pc = "sentences", !.i = 1]
    /\ UNCHANGED <<store, sentences, files, im, sq, si, calls, bt, sy>>

\* Lines 47-52, one turn of the loop.
WriteSentence ==
    /\ ex.pc = "sentences"
    /\ ex.i <= Len(ex.sentences)
    /\ writable' = [writable EXCEPT
                       !.data = @ \o Encode(Line(SentenceRecord(ex.sentences[ex.i])))]
    /\ ex' = [ReportProgress(ex) EXCEPT !.i = ex.i + 1]
    /\ UNCHANGED <<store, sentences, files, im, sq, si, calls, bt, sy>>

\* iterateImages(callback), its start: the keys are listed.
IterateImages ==
    /\ \/ ex.pc = "sentences" /\ ex.i > Len(ex.sentences)
       \/ ex.pc = "blobIterate"
    /\ ex' = [ex EXCEPT !.pc = IF ex.pc = "sentences" THEN "images" ELSE "blobImages",
                        !.itKeys = GetAllKeys(store)]
    /\ UNCHANGED <<store, sentences, files, writable, im, sq, si, calls, bt, sy>>

\* Lines 55-60: iterateImages fetches one key and, unless the fetch returns
\* no value, calls the callback, which writes the record.
WriteImage ==
    /\ ex.pc = "images"
    /\ ex.itKeys # <<>>
    /\ LET k == Head(ex.itKeys)
           v == GetImage(store, k)
       IN  IF v = Null
           THEN /\ ex' = [ex EXCEPT !.itKeys = Tail(ex.itKeys)]
                /\ UNCHANGED writable
           ELSE /\ writable' = [writable EXCEPT
                                   !.data = @ \o Encode(Line(ImageRecord(k, v)))]
                /\ ex' = [ReportProgress(ex) EXCEPT !.itKeys = Tail(ex.itKeys)]
    /\ UNCHANGED <<store, sentences, files, im, sq, si, calls, bt, sy>>

\* Lines 62-64: close() commits the file.
CloseWritable ==
    /\ ex.pc = "images"
    /\ ex.itKeys = <<>>
    /\ writable' = [writable EXCEPT !.open = FALSE]
    /\ ex' = [ex EXCEPT !.pc = "done", !.result = "resolved", !.via = "file"]
    /\ files' = files \cup {writable.data}
    /\ UNCHANGED <<store, sentences, im, sq, si, calls, bt, sy>>

\* Lines 76-81: the sentence loop of the blob path, which does not await.
RECURSIVE BlobSentences(_, _)
BlobSentences(e, i) ==
    IF i > Len(e.sentences) THEN e
    ELSE BlobSentences(
             [ReportProgress(e) EXCEPT
                 !.chunks = Append(e.chunks, Line(SentenceRecord(e.sentences[i])))],
             i + 1)

\* The blob path without the header.
BlobStartNoHeader ==
    /\ ex.pc = "blob"
    /\ ex' = [BlobSentences([ex EXCEPT !.chunks = <<>>], 1)
                 EXCEPT !.pc = "blobIterate"]
    /\ UNCHANGED <<store, sentences, files, writable, im, sq, si, calls, bt, sy>>

\* The blob path going on from the sentence the direct path had reached.
BlobStartResumes ==
    /\ ex.pc = "blob"
    /\ ex' = [BlobSentences([ex EXCEPT !.chunks = <<HeaderStr(ex)>>], ex.i)
                 EXCEPT !.pc = "blobIterate"]
    /\ UNCHANGED <<store, sentences, files, writable, im, sq, si, calls, bt, sy>>

\* Lines 73-81.
BlobStart ==
    /\ ex.pc = "blob"
    /\ ex' = [BlobSentences([ex EXCEPT !.chunks = <<HeaderStr(ex)>>], 1)
                 EXCEPT !.pc = "blobIterate"]
    /\ UNCHANGED <<store, sentences, files, writable, im, sq, si, calls, bt, sy>>

\* Lines 83-88: iterateImages fetches one key and, unless the fetch returns
\* no value, calls the callback, which pushes the record.
PushImage ==
    /\ ex.pc = "blobImages"
    /\ ex.itKeys # <<>>
    /\ LET k == Head(ex.itKeys)
           v == GetImage(store, k)
       IN  ex' = IF v = Null
                 THEN [ex EXCEPT !.itKeys = Tail(ex.itKeys)]
                 ELSE [ReportProgress(ex) EXCEPT
                          !.itKeys = Tail(ex.itKeys),
                          !.chunks = Append(ex.chunks, Line(ImageRecord(k, v)))]
    /\ UNCHANGED <<store, sentences, files, writable, im, sq, si, calls, bt, sy>>

\* Lines 90-97: the Blob is built and downloaded.
DownloadBlob ==
    /\ ex.pc = "blobImages"
    /\ ex.itKeys = <<>>
    /\ LET blob == Encode(Concat(ex.chunks)) IN
       /\ ex' = [ex EXCEPT !.pc = "done", !.result = "resolved", !.via = "blob"]
       /\ files' = files \cup {blob}
    /\ UNCHANGED <<store, sentences, writable, im, sq, si, calls, bt, sy>>

\* An export whose direct-write steps all succeed.
NextExport ==
    \/ ExportBackup
    \/ PickerOpens
    \/ PickerAborts
    \/ WriteHeader
    \/ WriteSentence
    \/ IterateImages
    \/ WriteImage
    \/ CloseWritable
    \/ BlobStart
    \/ PushImage
    \/ DownloadBlob

\* ------------------------------------------------------------------------
\* importBackup (services/backupService.ts)
\* ------------------------------------------------------------------------

\* text.split('\n'): the pieces between the newlines, one more than there
\* are newlines.
Split(text) ==
    LET at == {i \in DOMAIN text : text[i] = NL}
        n == Cardinality(at)
        pos(k) == IF k = 0 THEN 0
                  ELSE IF k = n + 1 THEN Len(text) + 1
                  ELSE CHOOSE i \in at : Cardinality({j \in at : j < i}) = k - 1
    IN  [k \in 1..(n + 1) |-> SubSeq(text, pos(k - 1) + 1, pos(k) - 1)]

\* !line.trim()
IsBlank(line) == \A i \in DOMAIN line : IsWs(line[i])

\* imageCount++ and the push of the legacy id made before the await.
PutImageCountsFirst(m, id, base64, legacy) ==
    IF id.t = "obj" THEN [m EXCEPT !.thrown = TRUE]
    ELSE IF id \in m.failing
        THEN [m EXCEPT !.thrown = TRUE, !.rejected = Append(@, <<id, base64>>),
                       !.imageCount = @ + 1,
                       !.legacyImageIds = IF legacy THEN Append(@, id) ELSE @]
    ELSE [m EXCEPT !.store = SaveImage(@, id, base64),
                   !.puts = Append(@, <<id, base64>>),
                   !.imageCount = @ + 1,
                   !.legacyImageIds = IF legacy THEN Append(@, id) ELSE @]

\* await saveImage(id, base64); imageCount++ -- on the import's running
\* state m.  IndexedDB takes no object as a key: the put throws.  The put
\* of a key in failing is rejected by the store (request.onerror); rejected
\* keeps the puts that were.
PutImage(m, id, base64, legacy) ==
    IF id.t = "obj" THEN [m EXCEPT !.thrown = TRUE]
    ELSE IF id \in m.failing
        THEN [m EXCEPT !.thrown = TRUE, !.rejected = Append(@, <<id, base64>>)]
    ELSE [m EXCEPT !.store = SaveImage(@, id, base64),
                   !.puts = Append(@, <<id, base64>>),
                   !.imageCount = @ + 1,
                   !.legacyImageIds = IF legacy THEN Append(@, id) ELSE @]

\* The restored sentence taking its status and imageUrl from the record.
RestoredKeepsFields(data) ==
    Sentence(Get(data, K_id), Get(data, K_text),
             IF Get(data, <<"s", "t", "a", "t", "u", "s">>) = Undefined
             THEN "pending" ELSE "completed",
             Get(data, <<"i", "m", "a", "g", "e", "U", "r", "l">>))

Restored(data) == Sentence(Get(data, K_id), Get(data, K_text), "pending", Undefined)

\* Lines 132-150: the body of the try block for one complete line; thrown
\* is set where the source throws.
DispatchLine(line, m) ==
    LET p == JSONparse(line) IN
    IF ~p.ok \/ Throws(p.val) THEN [m EXCEPT !.thrown = TRUE]
    ELSE LET data == p.val
             type == Get(data, K_type)
             id == Get(data, K_id)
             base64 == Get(data, K_base64)
         IN  IF type = Str(S_sentence)
                 THEN [m EXCEPT !.restoredSentences = Append(@, Restored(data))]
             ELSE IF type = Str(S_image)
                 THEN IF Truthy(id) /\ Truthy(base64)
                      THEN PutImage(m, id, base64, FALSE) ELSE m
             ELSE IF Truthy(id) /\ Truthy(base64)
                 THEN PutImage(m, id, base64, TRUE)
             ELSE m

\* Lines 164-173: the body of the try block for the text left after the
\* last newline.
DispatchLeftover(line, m) ==
    LET p == JSONparse(line) IN
    IF ~p.ok \/ Throws(p.val) THEN [m EXCEPT !.thrown = TRUE]
    ELSE LET data == p.val
             type == Get(data, K_type)
             id == Get(data, K_id)
             base64 == Get(data, K_base64)
         IN  IF type = Str(S_sentence)
                 THEN [m EXCEPT !.restoredSentences = Append(@, Restored(data))]
             ELSE IF type = Str(S_image) \/ (Truthy(id) /\ Truthy(base64))
                 THEN IF Truthy(id) /\ Truthy(base64)
                      THEN PutImage(m, id, base64, ~Truthy(type)) ELSE m
             ELSE m

\* The catch block rethrowing.
Rethrow(m) == m

\* catch (e) { ... }: the exception is swallowed (lines 151-153 and 174).
Catch(m) == [m EXCEPT !.thrown = FALSE]

\* Lines 130-153.
ImportLine(line, m) ==
    IF IsBlank(line) THEN m ELSE Catch(DispatchLine(line, m))

\* The text after the last newline dropped.
DropLeftover(line, m) == m

\* Lines 162-175.
ImportLeftover(line, m) ==
    IF IsBlank(line) THEN m ELSE Catch(DispatchLeftover(line, m))

\* Lines 129-154: the loop stops where an exception escapes.
RECURSIVE ImportLines(_, _)
ImportLines(lines, m) ==
    IF lines = <<>> \/ m.thrown THEN m
    ELSE ImportLines(Tail(lines), ImportLine(Head(lines), m))

ImIdle ==
    [pc |-> "idle", file |-> <<>>, processedBytes |-> 0, reads |-> 0,
     pending |-> <<>>, leftover |-> <<>>,
     progress |-> [calls |-> 0, last |-> 0, ordered |-> TRUE],
     m |-> [store |-> <<>>, imageCount |-> 0, restoredSentences |-> <<>>,
            legacyImageIds |-> <<>>, puts |-> <<>>, thrown |-> FALSE,
            failing |-> {}, rejected |-> <<>>],
     prev |-> <<>>, before |-> <<>>, first |-> <<>>, runs |-> 0, left |-> 0,
     split |-> FALSE, sawPending |-> FALSE]

MaxImports == 2
MaxReads == 2
ReadStride == 5

\* Where a read of the file may end: at its end, at every ReadStride-th
\* byte, just before and just after every newline, and inside every
\* multi-byte character.
ReadEnds(file) ==
    {p \in 1..Len(file) :
        \/ p = Len(file)
        \/ p % ReadStride = 0
        \/ file[p] \in {NL, "C3"}
        \/ p < Len(file) /\ file[p + 1] = NL}

\* onProgress(value), as seen by the caller: how many calls there were, the
\* last value, and whether no call gave less than the one before.
OnProgress(seen, value) ==
    [calls |-> seen.calls + 1, last |-> value,
     ordered |-> seen.ordered /\ (seen.calls = 0 \/ seen.last <= value)]

\* handleBackupImport, lines 169-175 of App.tsx, and importBackup up to its
\* first read (lines 104-116).  m holds imageCount, restoredSentences and
\* legacyImageIds, and the puts the import has made.  before keeps the
\* store as it was when the import began, first the store as the first
\* import of the run left it; left is the number of imports the user still
\* starts; split tells whether a read has ended inside a line, sawPending
\* whether one has ended inside a character.  A second
\* import takes the file of the first.
HandleBackupImport ==
    /\ im.pc \in {"idle", "merged", "synced", "failed"}
    /\ ex.pc \in {"idle", "done"}
    /\ im.left > 0
    /\ \E f \in files :
        /\ im.runs > 0 => f = im.file
        /\ im' = [ImIdle EXCEPT !.pc = "reading", !.file = f, !.before = store,
                                !.first = IF im.runs > 0 THEN store ELSE <<>>,
                                !.runs = im.runs + 1, !.left = im.left - 1]
    /\ UNCHANGED <<store, sentences, files, writable, ex, sq, si, calls, bt, sy>>

\* Lines 120-158: one read, up to byte p of the file, the complete lines it
\* ends, one progress report.  The last read the bound allows takes the rest.
ImportRead ==
    /\ im.pc = "reading"
    /\ im.processedBytes < Len(im.file)
    /\ \E p \in ReadEnds(im.file) :
        /\ p > im.processedBytes
        /\ im.reads + 1 < MaxReads \/ p = Len(im.file)
        /\ LET value == SubSeq(im.file, im.processedBytes + 1, p)
               d == Decode(im.pending, value)
               lines == Split(im.leftover \o d.text)
               m1 == ImportLines(SubSeq(lines, 1, Len(lines) - 1),
                                 [im.m EXCEPT !.store = store])
           IN  /\ store' = m1.store
               /\ im' = [im EXCEPT
                            !.pc = IF m1.thrown THEN "failed" ELSE "reading",
                            !.processedBytes = p,
                            !.reads = @ + 1,
                            !.pending = d.pending,
                            !.leftover = lines[Len(lines)],
                            !.split = @ \/ lines[Len(lines)] # <<>>,
                            !.sawPending = @ \/ d.pending # <<>>,
                            !.m = m1,
                            !.progress = IF m1.thrown THEN @
                                         ELSE OnProgress(@, Percent(p, Len(im.file)))]
    /\ UNCHANGED <<sentences, files, writable, ex, sq, si, calls, bt, sy>>

\* Lines 121 and 161-182: the reader is done, the text after the last
\* newline is processed, the result is returned.
ImportFinish ==
    /\ im.pc = "reading"
    /\ im.processedBytes = Len(im.file)
    /\ LET m1 == ImportLeftover(im.leftover, [im.m EXCEPT !.store = store]) IN
       /\ store' = m1.store
       /\ im' = [im EXCEPT !.pc = IF m1.thrown THEN "failed" ELSE "returned",
                           !.m = m1]
    /\ UNCHANGED <<sentences, files, writable, ex, sq, si, calls, bt, sy>>

\* The store begins to reject the puts of key k (saveImage, dbService.ts
\* line 29: request.onerror) while an import is reading.
StoreRejects ==
    /\ im.pc = "reading"
    /\ im.m.failing = {}
    /\ \E k \in {Str(<<"a">>), Str(<<"b">>)} :
        im' = [im EXCEPT !.m.failing = {k}]
    /\ UNCHANGED <<store, sentences, files, writable, ex, sq, si, calls, bt, sy>>

\* ------------------------------------------------------------------------
\* handleBackupImport: the reconciliation (App.tsx lines 177-196)
\* ------------------------------------------------------------------------

PlaceholderText ==
    <<"(", "R", "e", "s", "t", "o", "r", "e", "d", " ", "I", "m", "a", "g", "e",
      " ", "-", " ", "N", "o", " ", "T", "e", "x", "t", " ", "A", "v", "a", "i",
      "l", "a", "b", "l", "e", ")">>

Placeholder(id) == Sentence(id, Str(PlaceholderText), "completed", Undefined)

\* A JavaScript Map as the sequence of its entries <<key, value>> in
\* insertion order.
MapHas(map, k) == \E i \in DOMAIN map : map[i][1] = k

\* Map.set that keeps the status and the image of the entry it replaces.
MapSetMerges(map, k, v) ==
    IF MapHas(map, k)
    THEN [i \in DOMAIN map |->
            IF map[i][1] = k
            THEN <<k, [v EXCEPT !.status = map[i][2].status,
                                !.imageUrl = map[i][2].imageUrl]>>
            ELSE map[i]]
    ELSE Append(map, <<k, v>>)

MapSet(map, k, v) ==
    IF MapHas(map, k)
    THEN [i \in DOMAIN map |-> IF map[i][1] = k THEN <<k, v>> ELSE map[i]]
    ELSE Append(map, <<k, v>>)

RECURSIVE SetAll(_, _)
SetAll(map, ss) ==
    IF ss = <<>> THEN map ELSE SetAll(MapSet(map, Head(ss).id, Head(ss)), Tail(ss))

\* The placeholder set for every legacy id.
RECURSIVE AddLegacyAlways(_, _)
AddLegacyAlways(map, ids) ==
    IF ids = <<>> THEN map
    ELSE AddLegacyAlways(MapSet(map, Head(ids), Placeholder(Head(ids))), Tail(ids))

RECURSIVE AddLegacy(_, _)
AddLegacy(map, ids) ==
    IF ids = <<>> THEN map
    ELSE AddLegacy(IF MapHas(map, Head(ids)) THEN map
                   ELSE MapSet(map, Head(ids), Placeholder(Head(ids))),
                   Tail(ids))

MapValues(map) == [i \in DOMAIN map |-> map[i][2]]

\* Lines 177-194, the updater given to setSentences.
Reconcile(prev, restoredSentences, legacyImageIds) ==
    MapValues(AddLegacy(SetAll(SetAll(<<>>, prev), restoredSentences), legacyImageIds))

\* Lines 175-199: importBackup has resolved.  prev keeps the list as it was.
MergeImport ==
    /\ im.pc = "returned"
    /\ sentences' = Reconcile(sentences, im.m.restoredSentences, im.m.legacyImageIds)
    /\ im' = [im EXCEPT !.pc = "merged", !.prev = sentences]
    /\ UNCHANGED <<store, files, writable, ex, sq, si, calls, bt, sy>>

\* The updater leaving a processing sentence alone.
SyncSkipsProcessing(prev, keys) ==
    [i \in DOMAIN prev |->
        LET s == prev[i]
            hasImage == s.id \in Range(keys)
        IN  IF s.status = "processing" THEN s
            ELSE IF hasImage /\ s.status # "completed" THEN [s EXCEPT !.status = "completed"]
            ELSE IF ~hasImage /\ s.status = "completed" THEN [s EXCEPT !.status = "pending"]
            ELSE s]

\* The updater never taking completed back.
SyncKeepsCompleted(prev, keys) ==
    [i \in DOMAIN prev |->
        LET s == prev[i]
            hasImage == s.id \in Range(keys)
        IN  IF hasImage /\ s.status # "completed" THEN [s EXCEPT !.status = "completed"]
            ELSE s]

\* App.tsx lines 57-66, the updater the sync effect gives to setSentences,
\* with the keys it has read.
Sync(prev, keys) ==
    [i \in DOMAIN prev |->
        LET s == prev[i]
            hasImage == s.id \in Range(keys)
        IN  IF hasImage /\ s.status # "completed" THEN [s EXCEPT !.status = "completed"]
            ELSE IF ~hasImage /\ s.status = "completed" THEN [s EXCEPT !.status = "pending"]
            ELSE s]

\* App.tsx lines 50-73: the sync effect that the new dataVersion of line 196
\* starts.
SyncAfterImport ==
    /\ im.pc = "merged"
    /\ sentences' = IF sentences = <<>> THEN sentences
                    ELSE Sync(sentences, GetAllKeys(store))
    /\ im' = [im EXCEPT !.pc = "synced"]
    /\ UNCHANGED <<store, files, writable, ex, sq, si, calls, bt, sy>>

\* handleDeleteImage (App.tsx lines 209-218), for the image of a sentence of
\* the list, while no export or import runs.
MaxDeletes == 1

HandleDeleteImage ==
    /\ ex.pc \in {"idle", "done"}
    /\ im.pc \in {"idle", "merged", "synced", "failed"}
    /\ ex.deletes < MaxDeletes
    /\ \E i \in DOMAIN sentences :
        LET id == sentences[i].id IN
        /\ store' = DeleteImage(store, id)
        /\ sentences' = [j \in DOMAIN sentences |->
                            IF sentences[j].id = id
                            THEN [sentences[j] EXCEPT !.imageUrl = Undefined,
                                                      !.status = "pending"]
                            ELSE sentences[j]]
    /\ ex' = [ex EXCEPT !.deletes = @ + 1]
    /\ UNCHANGED <<files, writable, im, sq, si, calls, bt, sy>>

\* handleDeleteImage (App.tsx lines 209-218) while exportBackup is between
\* two of its awaits.
DeleteWhileExport ==
    /\ ex.pc \in {"header", "sentences", "images", "blobIterate", "blobImages"}
    /\ ex.deletes < MaxDeletes
    /\ \E i \in DOMAIN sentences :
        LET id == sentences[i].id IN
        /\ store' = DeleteImage(store, id)
        /\ sentences' = [j \in DOMAIN sentences |->
                            IF sentences[j].id = id
                            THEN [sentences[j] EXCEPT !.imageUrl = Undefined,
                                                      !.status = "pending"]
                            ELSE sentences[j]]
    /\ ex' = [ex EXCEPT !.deletes = @ + 1]
    /\ UNCHANGED <<files, writable, im, sq, si, calls, bt, sy>>

NextImport ==
    \/ HandleBackupImport
    \/ ImportRead
    \/ ImportFinish
    \/ MergeImport
    \/ SyncAfterImport

\* ------------------------------------------------------------------------
\* exportToSQLiteChunks (the SQLite service)
\* ------------------------------------------------------------------------

CHUNK_SIZE == 50

Min(a, b) == IF a < b THEN a ELSE b

\* keys.slice(i, i + CHUNK_SIZE), i counting from 0.
ChunkKeysOverlap(keys, i) == SubSeq(keys, i + 1, Min(i + CHUNK_SIZE + 1, Len(keys)))

ChunkKeys(keys, i) == SubSeq(keys, i + 1, Min(i + CHUNK_SIZE, Len(keys)))

\* The generator before its first next().  db is the open container: its
\* rows <<id, base64>>; chunks are the buffers the consumer has received,
\* each with the keys of its batch; progress is what onProgress was given.
\* containers are the loop indexes whose container is open; fetched is what
\* getImage gave for each key of the batch so far; deleted are the keys
\* deleted from the store while the generator runs.
SqIdle ==
    [pc |-> "idle", keys |-> <<>>, total |-> 0, processed |-> 0, i |-> 0,
     chunkKeys |-> <<>>, batch |-> <<>>, open |-> FALSE, db |-> <<>>,
     chunks |-> <<>>, progress |-> <<>>, early |-> FALSE, runs |-> 0,
     containers |-> {}, fetched |-> <<>>, deleted |-> <<>>, error |-> FALSE]

MaxSnapshots == 1

\* Lines 17-20, at the consumer's first next().
ExportToSQLiteChunks ==
    /\ sq.pc = "idle"
    /\ sq.runs < MaxSnapshots
    /\ LET keys == GetAllKeys(store) IN
       sq' = [SqIdle EXCEPT !.pc = "loop", !.keys = keys, !.total = Len(keys),
                            !.runs = sq.runs + 1]
    /\ UNCHANGED <<store, sentences, files, writable, ex, im, si, calls, bt, sy>>

\* Lines 23-39: the loop test holds, a fresh container gets its table.
OpenChunk ==
    /\ sq.pc = "loop"
    /\ sq.i < sq.total
    /\ sq' = [sq EXCEPT !.pc = "fetch", !.open = TRUE, !.db = <<>>,
                        !.containers = @ \cup {sq.i}, !.fetched = <<>>,
                        !.chunkKeys = ChunkKeys(sq.keys, sq.i),
                        !.batch = ChunkKeys(sq.keys, sq.i)]
    /\ UNCHANGED <<store, sentences, files, writable, ex, im, si, calls, bt, sy>>

\* Line 23: the loop test fails, the generator returns.
ChunksDone ==
    /\ sq.pc = "loop"
    /\ sq.i >= sq.total
    /\ sq' = [sq EXCEPT !.pc = "done"]
    /\ UNCHANGED <<store, sentences, files, writable, ex, im, si, calls, bt, sy>>

\* onProgress called only for a key that was found.
FetchedReportsFound(q, key, base64) ==
    [q EXCEPT !.db = IF Truthy(base64) THEN Append(@, <<key, base64>>) ELSE @,
              !.processed = @ + 1,
              !.progress = IF Truthy(base64)
                           THEN Append(@, Percent(q.processed + 1, q.total)) ELSE @]

\* processed advanced only for a key that was found.
FetchedCountsFound(q, key, base64) ==
    [q EXCEPT !.db = IF Truthy(base64) THEN Append(@, <<key, base64>>) ELSE @,
              !.processed = IF Truthy(base64) THEN @ + 1 ELSE @,
              !.progress = Append(@, Percent(IF Truthy(base64) THEN q.processed + 1
                                             ELSE q.processed, q.total))]

\* Lines 43-49, after the fetch of one key.
Fetched(q, key, base64) ==
    [q EXCEPT !.db = IF Truthy(base64) THEN Append(@, <<key, base64>>) ELSE @,
              !.processed = @ + 1,
              !.progress = Append(@, Percent(q.processed + 1, q.total))]

\* Lines 41-50, one turn of the loop.
FetchKey ==
    /\ sq.pc = "fetch"
    /\ sq.chunkKeys # <<>>
    /\ LET key == Head(sq.chunkKeys) IN
       sq' = [Fetched(sq, key, GetImage(store, key)) EXCEPT
                 !.chunkKeys = Tail(@),
                 !.fetched = Append(@, <<key, GetImage(store, key)>>)]
    /\ UNCHANGED <<store, sentences, files, writable, ex, im, si, calls, bt, sy>>

\* Lines 52-53: the container is serialized and handed to the consumer.
YieldChunk ==
    /\ sq.pc = "fetch"
    /\ sq.chunkKeys = <<>>
    /\ sq' = [sq EXCEPT !.pc = "yielded",
                        !.chunks = Append(@, [keys |-> sq.batch, rows |-> sq.db,
                                              fetched |-> sq.fetched,
                                              processed |-> sq.processed])]
    /\ UNCHANGED <<store, sentences, files, writable, ex, im, si, calls, bt, sy>>

\* Lines 55-57 and the loop's step, at the consumer's next().
ResumeChunk ==
    /\ sq.pc = "yielded"
    /\ sq' = [sq EXCEPT !.pc = "loop", !.open = FALSE, !.i = @ + CHUNK_SIZE,
                        !.containers = @ \ {sq.i}]
    /\ UNCHANGED <<store, sentences, files, writable, ex, im, si, calls, bt, sy>>

\* Lines 55-57, at the consumer's return(): it stops before the last chunk.
ReturnChunks ==
    /\ sq.pc = "yielded"
    /\ sq.i + CHUNK_SIZE < sq.total
    /\ sq' = [sq EXCEPT !.pc = "done", !.open = FALSE, !.early = TRUE,
                        !.containers = @ \ {sq.i}]
    /\ UNCHANGED <<store, sentences, files, writable, ex, im, si, calls, bt, sy>>

NextChunks ==
    \/ ExportToSQLiteChunks
    \/ OpenChunk
    \/ ChunksDone
    \/ FetchKey
    \/ YieldChunk
    \/ ResumeChunk
    \/ ReturnChunks

\* Lines 42 and 55-57: getImage rejects for a key of the batch; the finally
\* block closes the container and the generator throws to its consumer.
\* Without the finally block the container stays open.
FetchFailsLeavesOpen ==
    /\ sq.pc = "fetch"
    /\ sq.chunkKeys # <<>>
    /\ sq' = [sq EXCEPT !.pc = "failed", !.error = TRUE]
    /\ UNCHANGED <<store, sentences, files, writable, ex, im, si, calls, bt, sy>>

FetchFails ==
    /\ sq.pc = "fetch"
    /\ sq.chunkKeys # <<>>
    /\ sq' = [sq EXCEPT !.pc = "failed", !.error = TRUE, !.open = FALSE,
                        !.containers = @ \ {sq.i}]
    /\ UNCHANGED <<store, sentences, files, writable, ex, im, si, calls, bt, sy>>

\* deleteImage (dbService.ts lines 76-85) called by the application for one
\* of the keys RaceKeys while the generator is between two of its steps.
MaxRaceDeletes == 2

RaceKeys == {BulkKey(1), BulkKey(2), BulkKey(CHUNK_SIZE + 1)}

DeleteWhileSnapshot ==
    /\ sq.pc \in {"loop", "fetch", "yielded"}
    /\ Len(sq.deleted) < MaxRaceDeletes
    /\ \E k \in RaceKeys \cap DOMAIN store :
        /\ store' = DeleteImage(store, k)
        /\ sq' = [sq EXCEPT !.deleted = Append(@, k)]
    /\ UNCHANGED <<sentences, files, writable, ex, im, si, calls, bt, sy>>

NextChunksRace ==
    \/ NextChunks
    \/ FetchFails
    \/ DeleteWhileSnapshot

\* ------------------------------------------------------------------------
\* importFromSQLite (the SQLite service)
\* ------------------------------------------------------------------------

\* A buffer: bytes that new SQL.Database cannot open, or a container with
\* its tables and the rows <<id, base64>> of its table images.
Unopenable == [kind |-> "bytes", tables |-> {}, rows |-> <<>>]

Container(tables, rows) == [kind |-> "db", tables |-> tables, rows |-> rows]

\* db.export() of the container of a chunk.
Exported_db(rows) == Container({"images"}, rows)

\* importFromSQLite before a call.  queue holds the buffers it is still to
\* be called with; before keeps the store as it was at the call, origin the
\* store that was exported, results the counts the calls returned.
SiIdle ==
    [pc |-> "idle", buffer |-> Unopenable, open |-> FALSE, rows |-> <<>>, count |-> 0,
     error |-> "none", puts |-> <<>>, before |-> <<>>, queue |-> <<>>,
     origin |-> <<>>, results |-> <<>>, restoring |-> FALSE]

\* Lines 62-73: new SQL.Database(buffer) opens the buffer or throws.
ImportFromSQLite ==
    /\ si.pc \in {"idle", "returned", "failed"}
    /\ sq.pc \in {"idle", "done"}
    /\ si.queue # <<>>
    /\ LET b == Head(si.queue) IN
       si' = [si EXCEPT !.buffer = b, !.queue = Tail(@), !.rows = <<>>, !.count = 0,
                        !.puts = <<>>, !.before = store,
                        !.pc = IF b.kind = "db" THEN "check" ELSE "failed",
                        !.open = b.kind = "db",
                        !.error = IF b.kind = "db" THEN "none" ELSE "format"]
    /\ UNCHANGED <<store, sentences, files, writable, ex, im, sq, calls, bt, sy>>

\* The schema test passing for a container with any table.
CheckSchemaAnyTable ==
    /\ si.pc = "check"
    /\ si' = IF si.buffer.tables # {}
             THEN [si EXCEPT !.pc = "rows", !.rows = si.buffer.rows]
             ELSE [si EXCEPT !.pc = "failed", !.error = "schema", !.open = FALSE]
    /\ UNCHANGED <<store, sentences, files, writable, ex, im, sq, calls, bt, sy>>

\* Lines 75-84 (and 91-93 where it throws): the table images is looked up,
\* the rows are selected.
CheckSchema ==
    /\ si.pc = "check"
    /\ si' = IF "images" \in si.buffer.tables
             THEN [si EXCEPT !.pc = "rows", !.rows = si.buffer.rows]
             ELSE [si EXCEPT !.pc = "failed", !.error = "schema", !.open = FALSE]
    /\ UNCHANGED <<store, sentences, files, writable, ex, im, sq, calls, bt, sy>>

\* The row written only if its base64 is not empty.
RowWrittenIfTruthy(st, row) ==
    IF Truthy(row[2]) THEN SaveImage(st, row[1], row[2]) ELSE st

\* Line 87: await saveImage(row.id, row.base64).
RowWritten(st, row) == SaveImage(st, row[1], row[2])

\* Lines 85-89, one turn of the loop.
ImportRow ==
    /\ si.pc = "rows"
    /\ si.rows # <<>>
    /\ store' = RowWritten(store, Head(si.rows))
    /\ si' = [si EXCEPT !.rows = Tail(@), !.count = @ + 1,
                        !.puts = Append(@, Head(si.rows))]
    /\ UNCHANGED <<sentences, files, writable, ex, im, sq, calls, bt, sy>>

\* Lines 90-94: the statement is freed, the container closed, the count
\* returned.
ImportRowsDone ==
    /\ si.pc = "rows"
    /\ si.rows = <<>>
    /\ si' = [si EXCEPT !.pc = "returned", !.open = FALSE,
                        !.results = Append(@, si.count)]
    /\ UNCHANGED <<store, sentences, files, writable, ex, im, sq, calls, bt, sy>>

\* The chunks of a finished export are taken to a device whose store is
\* empty, to be imported there one after the other.
StartRestore ==
    /\ sq.pc = "done"
    /\ ~si.restoring
    /\ si.pc = "idle"
    /\ store' = <<>>
    /\ si' = [SiIdle EXCEPT !.restoring = TRUE, !.origin = store,
                            !.queue = [j \in DOMAIN sq.chunks |->
                                          Exported_db(sq.chunks[j].rows)]]
    /\ UNCHANGED <<sentences, files, writable, ex, im, sq, calls, bt, sy>>

NextSQLite ==
    \/ ImportFromSQLite
    \/ CheckSchema
    \/ ImportRow
    \/ ImportRowsDone
    \/ StartRestore
    \/ NextChunks

\* ------------------------------------------------------------------------
\* saveImage, getImage and deleteImage called one after the other
\* (services/dbService.ts)
\* ------------------------------------------------------------------------

Call(op, key, value) == [op |-> op, key |-> key, value |-> value]

\* log: the calls in the order they were made; got: what the last getImage
\* resolved with.
NoCalls == [log |-> <<>>, got |-> Undefined]

MaxCalls == 4

KeyPool == {Str(<<>>), Str(<<"a">>), Str(<<"b">>)}

ValuePool == {Str(<<>>), Str(<<"x">>), Str(<<"y">>)}

SaveImageCall ==
    /\ Len(calls.log) < MaxCalls
    /\ \E k \in KeyPool, v \in ValuePool :
        /\ store' = SaveImage(store, k, v)
        /\ calls' = [calls EXCEPT !.log = Append(@, Call("save", k, v))]
    /\ UNCHANGED <<sentences, files, writable, ex, im, sq, si, bt, sy>>

GetImageCall ==
    /\ Len(calls.log) < MaxCalls
    /\ \E k \in KeyPool :
        calls' = [log |-> Append(calls.log, Call("get", k, Undefined)),
                  got |-> GetImage(store, k)]
    /\ UNCHANGED <<store, sentences, files, writable, ex, im, sq, si, bt, sy>>

DeleteImageCall ==
    /\ Len(calls.log) < MaxCalls
    /\ \E k \in KeyPool :
        /\ store' = DeleteImage(store, k)
        /\ calls' = [calls EXCEPT !.log = Append(@, Call("delete", k, Undefined))]
    /\ UNCHANGED <<sentences, files, writable, ex, im, sq, si, bt, sy>>

NextStore ==
    \/ SaveImageCall
    \/ GetImageCall
    \/ DeleteImageCall

\* ------------------------------------------------------------------------
\* startBatch and the sync effect (App.tsx)
\* ------------------------------------------------------------------------

maxRetries == 3

BatchSizes == {1, 2}

MaxBatches == 1

\* status is the GenerationStatus; pending, idx, attempts, success and url
\* are the locals of startBatch.  log has one entry for every selected sentence
\* the loop has reached: the failed attempts, whether saveImage succeeded,
\* and the statuses the batch has set.
BtIdle ==
    [pc |-> "idle", status |-> "IDLE", batchSize |-> 0, pending |-> <<>>,
     idx |-> 1, attempts |-> 0, success |-> FALSE, url |-> Undefined,
     log |-> <<>>, runs |-> 0]

LogEntry == [failed |-> 0, saved |-> FALSE, completed |-> FALSE, error |-> FALSE]

\* prev.map(p => p.id === id ? { ...p, status } : p)
SetStatus(prev, id, status) ==
    [i \in DOMAIN prev |->
        IF prev[i].id = id THEN [prev[i] EXCEPT !.status = status] ELSE prev[i]]

\* sentences.filter(s => s.status !== 'completed').slice(0, batchSize)
NotCompleted(ss) == SelectSeq(ss, LAMBDA s : s.status # "completed")

Selected(ss, batchSize) ==
    LET f == NotCompleted(ss) IN SubSeq(f, 1, Min(batchSize, Len(f)))

\* Lines 77-80.
StartBatch ==
    /\ bt.status # "RUNNING"
    /\ bt.runs < MaxBatches
    /\ \E n \in BatchSizes :
        bt' = [BtIdle EXCEPT !.pc = "loop", !.status = "RUNNING", !.batchSize = n,
                             !.pending = Selected(sentences, n),
                             !.runs = bt.runs + 1]
    /\ UNCHANGED <<store, sentences, files, writable, ex, im, sq, si, calls, sy>>

\* Lines 82-90: the next sentence of pending, or one more attempt for the
\* one at hand; the sentence is set to processing.
Attempt ==
    /\ bt.pc = "loop"
    /\ bt.idx <= Len(bt.pending)
    /\ bt.attempts < maxRetries /\ ~bt.success
    /\ sentences' = SetStatus(sentences, bt.pending[bt.idx].id, "processing")
    /\ bt' = [bt EXCEPT !.pc = "generating", !.attempts = @ + 1,
                        !.log = IF Len(@) < bt.idx THEN Append(@, LogEntry) ELSE @]
    /\ UNCHANGED <<store, files, writable, ex, im, sq, si, calls, sy>>

\* Lines 91-92: generateImageWithStyle and saveImage have resolved.
Saved ==
    /\ bt.pc = "generating"
    /\ \E url \in {Str(<<"x">>), Str(<<"y">>)} :
        /\ store' = SaveImage(store, bt.pending[bt.idx].id, url)
        /\ bt' = [bt EXCEPT !.pc = "saved", !.url = url, !.log[bt.idx].saved = TRUE]
    /\ UNCHANGED <<sentences, files, writable, ex, im, sq, si, calls, sy>>

\* Lines 94-95.
MarkCompleted ==
    /\ bt.pc = "saved"
    /\ LET id == bt.pending[bt.idx].id IN
       sentences' = [i \in DOMAIN sentences |->
                        IF sentences[i].id = id
                        THEN [sentences[i] EXCEPT !.imageUrl = bt.url,
                                                  !.status = "completed"]
                        ELSE sentences[i]]
    /\ bt' = [bt EXCEPT !.pc = "loop", !.success = TRUE,
                        !.log[bt.idx].completed = TRUE]
    /\ UNCHANGED <<store, files, writable, ex, im, sq, si, calls, sy>>

\* The catch block setting error after any failed attempt.
AttemptFailsErrorsAtOnce ==
    /\ bt.pc = "generating"
    /\ sentences' = SetStatus(sentences, bt.pending[bt.idx].id, "error")
    /\ bt' = [bt EXCEPT !.pc = "loop", !.log[bt.idx].failed = @ + 1,
                        !.log[bt.idx].error = TRUE]
    /\ UNCHANGED <<store, files, writable, ex, im, sq, si, calls, sy>>

\* Lines 96-104: generateImageWithStyle or saveImage has rejected; nothing
\* was stored.  After the last attempt the sentence is set to error.
AttemptFails ==
    /\ bt.pc = "generating"
    /\ sentences' = IF bt.attempts = maxRetries
                    THEN SetStatus(sentences, bt.pending[bt.idx].id, "error")
                    ELSE sentences
    /\ bt' = [bt EXCEPT !.pc = "loop", !.log[bt.idx].failed = @ + 1,
                        !.log[bt.idx].error = (bt.attempts = maxRetries)]
    /\ UNCHANGED <<store, files, writable, ex, im, sq, si, calls, sy>>

\* Lines 82 and 87: the while loop ends, the for loop goes on.
NextSentence ==
    /\ bt.pc = "loop"
    /\ bt.idx <= Len(bt.pending)
    /\ ~(bt.attempts < maxRetries /\ ~bt.success)
    /\ bt' = [bt EXCEPT !.idx = @ + 1, !.attempts = 0, !.success = FALSE]
    /\ UNCHANGED <<store, sentences, files, writable, ex, im, sq, si, calls, sy>>

\* Line 108.
EndBatch ==
    /\ bt.pc = "loop"
    /\ bt.idx > Len(bt.pending)
    /\ bt' = [bt EXCEPT !.pc = "done", !.status = "IDLE"]
    /\ UNCHANGED <<store, sentences, files, writable, ex, im, sq, si, calls, sy>>

\* The sync effect (lines 50-73).  trigger: a dependency (sentences.length,
\* dataVersion) has changed and the effect has not run yet.  keys is what
\* getAllKeys resolved with; prev and after are the list the last updater
\* got and the list it returned, used the keys it had, syncs counts the
\* updaters applied.
SyIdle ==
    [pc |-> "idle", trigger |-> FALSE, keys |-> <<>>, prev |-> <<>>,
     after |-> <<>>, used |-> <<>>, syncs |-> 0, imported |-> 0]

\* Lines 51-54: the effect runs; it returns at once for an empty list.
SyncRead ==
    /\ sy.trigger
    /\ sy.pc = "idle"
    /\ sy' = IF sentences = <<>> THEN [sy EXCEPT !.trigger = FALSE]
             ELSE [sy EXCEPT !.trigger = FALSE, !.pc = "read",
                             !.keys = GetAllKeys(store)]
    /\ UNCHANGED <<store, sentences, files, writable, ex, im, sq, si, calls, bt>>

\* Lines 55-66: setSentences applies the updater to the list as it is now.
SyncApply ==
    /\ sy.pc = "read"
    /\ sentences' = Sync(sentences, sy.keys)
    /\ sy' = [sy EXCEPT !.pc = "idle", !.prev = sentences, !.used = sy.keys,
                        !.after = Sync(sentences, sy.keys), !.syncs = @ + 1]
    /\ UNCHANGED <<store, files, writable, ex, im, sq, si, calls, bt>>

\* handleBackupImport (lines 169-196) of a file that holds one image record:
\* the image is saved, the list goes through the updater of the merge, and
\* setDataVersion makes the sync effect run.
MaxImported == 1

ImageImported ==
    /\ sy.imported < MaxImported
    /\ \E k \in {Str(<<"a">>), Str(<<"b">>)} :
        store' = SaveImage(store, k, Str(<<"y">>))
    /\ sentences' = Reconcile(sentences, <<>>, <<>>)
    /\ sy' = [sy EXCEPT !.trigger = TRUE, !.imported = @ + 1]
    /\ UNCHANGED <<files, writable, ex, im, sq, si, calls, bt>>

NextBatch ==
    \/ StartBatch
    \/ Attempt
    \/ Saved
    \/ MarkCompleted
    \/ AttemptFails
    \/ NextSentence
    \/ EndBatch
    \/ SyncRead
    \/ SyncApply
    \/ ImageImported

\* ------------------------------------------------------------------------
\* Values of the runs
\* ------------------------------------------------------------------------

A == Str(<<"a">>)
B == Str(<<"b">>)
Empty == Str(<<>>)
X == Str(<<"x">>)
Y == Str(<<"y">>)
Text1 == Str(<<"t", "E9">>)
Text2 == Str(<<QUOTE, BSL>>)

\* The stores over the keys "", "a" and "b".
SmallStores ==
    {[k \in ks |-> IF k = B THEN Y ELSE X] : ks \in SUBSET {Empty, A, B}}

MaxSentences == 1

SmallSentences == {Sentence(A, Text1, "pending", Undefined),
                   Sentence(Empty, Text2, "pending", Undefined)}

SentenceLists == UNION {[1..n -> SmallSentences] : n \in 0..MaxSentences}

InitIdle(imports) ==
    /\ writable = NoWritable
    /\ ex = ExIdle
    /\ im = [ImIdle EXCEPT !.left = imports]
    /\ sq = SqIdle
    /\ si = SiIdle
    /\ calls = NoCalls
    /\ bt = BtIdle
    /\ sy = SyIdle

\* Round trip: the application with some sentences and stored images, the
\* statuses as the sync effect leaves them, and no backup file yet.
Init ==
    /\ store \in SmallStores
    /\ \E ss \in SentenceLists : sentences = Sync(ss, GetAllKeys(store))
    /\ files = {}
    /\ InitIdle(1)

Next == NextExport \/ HandleDeleteImage \/ NextImport
Spec == Init /\ [][Next]_vars

\* The same application, any direct-write step of the export failing.
NextExportFails == NextExport \/ DirectFails
SpecExport == Init /\ [][NextExportFails]_vars

\* The same application, an image deleted while the export runs.
NextExportRace == NextExport \/ DeleteWhileExport
SpecExportRace == Init /\ [][NextExportRace]_vars

\* Exports of up to MaxBulk sentences.
MaxBulk == 25

BulkSentences(n) ==
    [i \in 1..n |-> Sentence(BulkKey(i), Str(<<"t">>), "pending", Undefined)]

InitBulk ==
    /\ store \in {<<>>, [k \in {A} |-> X]}
    /\ \E n \in 0..MaxBulk : sentences = BulkSentences(n)
    /\ files = {}
    /\ InitIdle(0)

SpecBulk == InitBulk /\ [][NextExportFails]_vars

\* Import of a file that was not written by this version: lines of every
\* shape, the last with or without its newline.
LegacyRecord(id, base64) == << <<K_id, id>>, <<K_base64, base64>> >>

LinePool ==
    {JSONstringify(SentenceRecord(Sentence(B, Text1, "completed", Undefined))),
     JSONstringify(ImageRecord(A, X)),
     JSONstringify(LegacyRecord(B, Y)),
     <<"{", "x">>}

MaxLines == 3

\* lines.join('\n'), with a last newline or without.
RECURSIVE Join(_)
Join(lines) ==
    IF Len(lines) = 1 THEN lines[1] ELSE lines[1] \o <<NL>> \o Join(Tail(lines))

FilesOf(maxLines) ==
    {Encode(Join(lines) \o end) :
        lines \in UNION {[1..n -> LinePool] : n \in 1..maxLines},
        end \in {<<>>, <<NL>>}}

SentencePresets == {<<>>, <<Sentence(B, Text2, "pending", Undefined)>>}

InitImport ==
    /\ store = <<>>
    /\ sentences \in SentencePresets
    /\ \E f \in FilesOf(MaxLines) : files = {f}
    /\ InitIdle(1)

SpecImport == InitImport /\ [][NextImport]_vars

\* The same, the file imported MaxImports times.
InitReimport ==
    /\ store = <<>>
    /\ sentences \in SentencePresets
    /\ \E f \in FilesOf(MaxLines - 1) : files = {f}
    /\ InitIdle(MaxImports)

SpecReimport == InitReimport /\ [][NextImport]_vars

\* Imports during which the store begins to reject the puts of one key.
NextPutFails == NextImport \/ StoreRejects

InitPutFails ==
    /\ store = <<>>
    /\ sentences \in SentencePresets
    /\ \E f \in FilesOf(MaxLines - 1) : files = {f}
    /\ InitIdle(1)

SpecPutFails == InitPutFails /\ [][NextPutFails]_vars

\* Import of files whose records have every shape the dispatch tells apart:
\* one or two records, the last with or without its newline.
K_status == <<"s", "t", "a", "t", "u", "s">>
K_imageUrl == <<"i", "m", "a", "g", "e", "U", "r", "l">>

ShapePool ==
    {JSONstringify(<< <<K_type, Str(S_sentence)>>, <<K_id, A>>, <<K_text, Text1>>,
                      <<K_status, Str(<<"c">>)>>, <<K_imageUrl, Str(<<"u">>)>>,
                      <<K_base64, Y>> >>),
     JSONstringify(<< <<K_type, Str(S_sentence)>> >>),
     JSONstringify(ImageRecord(A, X)),
     JSONstringify(<< <<K_type, Str(S_image)>>, <<K_id, A>> >>),
     JSONstringify(ImageRecord(Empty, X)),
     JSONstringify(LegacyRecord(B, Y)),
     JSONstringify(<< <<K_id, B>> >>),
     JSONstringify(<< <<K_type, Str(S_header)>>, <<K_id, A>>, <<K_base64, X>> >>),
     JSONstringify(HeaderRecord(<<"T">>, 1)),
     JSONstringify(<< <<K_type, Empty>>, <<K_id, B>>, <<K_base64, Y>> >>),
     <<"n", "u", "l", "l">>}

MaxRecords == 2

InitShapes ==
    /\ store = <<>>
    /\ sentences = <<>>
    /\ \E lines \in UNION {[1..n -> ShapePool] : n \in 1..MaxRecords} :
       \E end \in {<<>>, <<NL>>} : files = {Encode(Join(lines) \o end)}
    /\ InitIdle(1)

SpecShapes == InitShapes /\ [][NextImport]_vars

\* Import into an application whose list comes from a CSV file, which may
\* give one id to two rows, with the image of sentence "a" generated (App.tsx
\* line 94 sets imageUrl and status of every entry with the id) or not.
CsvPool == {Sentence(A, Text1, "pending", Undefined),
            Sentence(A, Text2, "pending", Undefined),
            Sentence(B, Text2, "pending", Undefined)}

MaxExisting == 2

CsvLists == UNION {[1..n -> CsvPool] : n \in 0..MaxExisting}

Generated(ss, id, url) ==
    [i \in DOMAIN ss |->
        IF ss[i].id = id THEN [ss[i] EXCEPT !.imageUrl = url, !.status = "completed"]
        ELSE ss[i]]

MergePool ==
    {JSONstringify(<< <<K_type, Str(S_sentence)>>, <<K_id, A>>, <<K_text, Text2>>,
                      <<K_status, Str(<<"c">>)>>, <<K_imageUrl, Str(<<"u">>)>> >>),
     JSONstringify(SentenceRecord(Sentence(A, Text1, "pending", Undefined))),
     JSONstringify(ImageRecord(A, X)),
     JSONstringify(LegacyRecord(B, Y))}

InitMerge ==
    /\ \E ss \in CsvLists :
          \/ store = <<>> /\ sentences = ss
          \/ store = SaveImage(<<>>, A, X) /\ sentences = Generated(ss, A, X)
    /\ \E lines \in UNION {[1..n -> MergePool] : n \in 1..MaxRecords} :
          files = {Encode(Join(lines) \o <<NL>>)}
    /\ InitIdle(1)

SpecMerge == InitMerge /\ [][NextImport]_vars

\* The application with a list from a CSV file, the statuses as the sync
\* effect leaves them: batches, imports of images and the sync effect.
InitBatch ==
    /\ store \in {<<>>, SaveImage(<<>>, A, X)}
    /\ \E ss \in CsvLists : sentences = Sync(ss, GetAllKeys(store))
    /\ files = {}
    /\ InitIdle(0)

SpecBatch == InitBatch /\ [][NextBatch]_vars

\* Snapshot exports of stores of up to MaxKeys keys, every value an image or
\* the last one an empty string.
BulkStore(n, hole) ==
    [k \in {BulkKey(i) : i \in 1..n} |-> IF k = BulkKey(hole) THEN Empty ELSE X]

InitChunks ==
    /\ \E n \in 0..MaxKeys : \E hole \in {0, n} : store = BulkStore(n, hole)
    /\ sentences = <<>>
    /\ files = {}
    /\ InitIdle(0)

SpecChunks == InitChunks /\ [][NextChunks]_vars

\* Snapshot exports of one or two chunks during which the application may
\* delete a key and a fetch may fail.
RaceSizes == {3, CHUNK_SIZE + 1}

InitChunksRace ==
    /\ \E n \in RaceSizes : \E hole \in {0, n} : store = BulkStore(n, hole)
    /\ sentences = <<>>
    /\ files = {}
    /\ InitIdle(0)

SpecChunksRace == InitChunksRace /\ [][NextChunksRace]_vars

\* dbService on an empty store, called up to MaxCalls times.
InitStore ==
    /\ store = <<>>
    /\ sentences = <<>>
    /\ files = {}
    /\ InitIdle(0)

SpecStore == InitStore /\ [][NextStore]_vars

\* importFromSQLite called with a buffer of any kind on a small store, and
\* the chunks of a snapshot export imported into an empty store.
MaxRows == 2
MaxRestored == 51

RowLists ==
    {rows \in UNION {[1..n -> {Empty, A, B} \X {X, Empty}] : n \in 0..MaxRows} :
        \A i, j \in DOMAIN rows : i # j => rows[i][1] # rows[j][1]}

Buffers ==
    {Unopenable, Container({}, <<>>), Container({"other"}, <<>>)}
        \cup {Container(tables, rows) :
                tables \in {{"images"}, {"images", "other"}}, rows \in RowLists}

InitSQLite ==
    /\ sentences = <<>>
    /\ files = {}
    /\ writable = NoWritable
    /\ ex = ExIdle
    /\ im = ImIdle
    /\ sq = SqIdle
    /\ calls = NoCalls
    /\ bt = BtIdle
    /\ sy = SyIdle
    /\ \/ /\ store \in {<<>>, [k \in {A} |-> Y], [k \in {Empty, B} |-> X]}
          /\ \E b \in Buffers : si = [SiIdle EXCEPT !.queue = <<b>>]
       \/ /\ \E n \in 0..MaxRestored : \E hole \in {0, n} : store = BulkStore(n, hole)
          /\ si = SiIdle

SpecSQLite == InitSQLite /\ [][NextSQLite]_vars

\* ------------------------------------------------------------------------
\* Properties of importBackup and of the reconciliation
\* ------------------------------------------------------------------------

SentenceLine == JSONstringify(SentenceRecord(Sentence(B, Text1, "completed", Undefined)))
ImageLine == JSONstringify(ImageRecord(A, X))
LegacyLine == JSONstringify(LegacyRecord(B, Y))
MalformedLine == <<"{", "x">>

\* The lines of a whole file, whatever the reads were.
FileLines(file) == Split(Decode(<<>>, file).text)

\* What the lines of a file ask for, line by line.
ExpectedSentences(lines) ==
    [i \in DOMAIN SelectSeq(lines, LAMBDA l : l = SentenceLine) |->
        Sentence(B, Text1, "pending", Undefined)]

ExpectedPuts(lines) ==
    LET ls == SelectSeq(lines, LAMBDA l : l \in {ImageLine, LegacyLine}) IN
    [i \in DOMAIN ls |-> IF ls[i] = ImageLine THEN <<A, X>> ELSE <<B, Y>>]

ImportReturned == im.pc \in {"returned", "merged", "synced"}

\* C2: importing the same file a second time, with no other change between
\* the two imports, does not fail and leaves the store as the first import
\* left it.
ImportTwiceSameStore ==
    /\ im.runs = MaxImports => im.pc # "failed"
    /\ (im.runs = MaxImports /\ ImportReturned) => store = im.first

ImportTwiceDone ==
    /\ im.runs = MaxImports
    /\ im.pc = "returned"
    /\ im.m.imageCount > 0
    /\ store # <<>>

\* C3: however the file is cut into reads, every complete sentence line
\* gives one restored sentence and every complete image line one store
\* write, in the order of the file, and a last line without its newline is
\* processed like the others.
EverySplitSameResult ==
    im.pc = "returned" =>
        LET lines == FileLines(im.file) IN
        /\ im.m.restoredSentences = ExpectedSentences(lines)
        /\ im.m.puts = ExpectedPuts(lines)
        /\ im.m.imageCount = Len(ExpectedPuts(lines))

SplitLastLineProcessed ==
    /\ im.pc = "returned"
    /\ im.split
    /\ im.file[Len(im.file)] # NL
    /\ LET lines == FileLines(im.file) IN
       /\ lines[Len(lines)] = ImageLine
       /\ im.m.puts # <<>>
       /\ im.m.puts[Len(im.m.puts)] = <<A, X>>

\* C4: a line that is not valid JSON is skipped: the import does not fail,
\* and the lines before and after it have their effect.
MalformedLineSkipped ==
    /\ im.pc # "failed"
    /\ im.pc = "returned" =>
        LET lines == FileLines(im.file) IN
        (\E i \in DOMAIN lines : lines[i] = MalformedLine) =>
            /\ \A i \in DOMAIN lines :
                /\ lines[i] = SentenceLine =>
                       Sentence(B, Text1, "pending", Undefined)
                           \in Range(im.m.restoredSentences)
                /\ lines[i] = ImageLine => HasKey(store, A) /\ store[A] = X
                /\ lines[i] = LegacyLine => HasKey(store, B) /\ store[B] = Y
            /\ Len(im.m.restoredSentences) + im.m.imageCount
                   = Cardinality({i \in DOMAIN lines : lines[i] \in LinePool \ {MalformedLine}})

MalformedBetweenGoodLines ==
    /\ im.pc = "returned"
    /\ LET lines == FileLines(im.file) IN
       /\ Len(lines) >= 3
       /\ lines[1] = ImageLine
       /\ lines[2] = MalformedLine
       /\ lines[3] = SentenceLine
    /\ im.m.imageCount = 1
    /\ Len(im.m.restoredSentences) = 1

Ids(ss) == {ss[i].id : i \in DOMAIN ss}

\* The last sentence of a list with an id.
LastWith(ss, id) ==
    ss[CHOOSE i \in DOMAIN ss :
           ss[i].id = id /\ \A j \in DOMAIN ss : ss[j].id = id => j <= i]

LegacyIds == Range(im.m.legacyImageIds)

\* C5, as stated: after the merge a placeholder is in the list for a legacy
\* id exactly when that id is in neither the list as it was nor the restored
\* sentences.
PlaceholderIffInNeither ==
    im.pc = "merged" =>
        \A id \in LegacyIds :
            (Placeholder(id) \in Range(sentences))
                <=> (id \notin Ids(im.prev) /\ id \notin Ids(im.m.restoredSentences))

\* C5: after the merge the list has one entry for every legacy id: the
\* restored sentence if there is one, else the sentence the list already had
\* (which may be a placeholder of an earlier import), else a new placeholder.
LegacyEntryReconciled ==
    im.pc = "merged" =>
        \A id \in LegacyIds :
            /\ Cardinality({i \in DOMAIN sentences : sentences[i].id = id}) = 1
            /\ LastWith(sentences, id) =
                   IF id \in Ids(im.m.restoredSentences)
                       THEN LastWith(im.m.restoredSentences, id)
                   ELSE IF id \in Ids(im.prev) THEN LastWith(im.prev, id)
                   ELSE Placeholder(id)

PlaceholderAdded ==
    /\ im.pc = "merged"
    /\ B \in LegacyIds
    /\ B \notin Ids(im.prev)
    /\ B \notin Ids(im.m.restoredSentences)
    /\ Placeholder(B) \in Range(sentences)


\* ------------------------------------------------------------------------
\* Properties of exportBackup
\* ------------------------------------------------------------------------

\* An export has delivered a document, and the document.
Exported == ex.pc = "done" /\ ex.via # "none"

Produced == IF ex.via = "file" THEN writable.data ELSE Encode(Concat(ex.chunks))

\* The records of a document: its non-empty lines, parsed.
RecordsOf(doc) ==
    LET ls == SelectSeq(FileLines(doc), LAMBDA l : l # <<>>) IN
    [i \in DOMAIN ls |-> JSONparse(ls[i]).val]

TypeOf(record) == Get(record, K_type)

\* C1: a store of N images exported and the document imported again: the
\* import reports N writes, and every key the store held at the export is in
\* the store with the value it had.
RoundTripRestoresAll ==
    (im.pc = "returned" /\ Exported /\ im.file = Produced) =>
        /\ im.m.imageCount = Cardinality(DOMAIN ex.snapshot)
        /\ \A k \in DOMAIN ex.snapshot : HasKey(store, k) /\ store[k] = ex.snapshot[k]

\* C7, as stated: the document exported from a store with no key holds the
\* header record and nothing else.
EmptyStoreOnlyHeader ==
    (Exported /\ ex.totalImages = 0) =>
        LET rs == RecordsOf(Produced) IN
        Len(rs) = 1 /\ TypeOf(rs[1]) = Str(S_header)

\* C7: the document exported from a store with no key holds the header
\* record, its count 0, then one sentence record for every sentence of the
\* list and no image record; with no sentence either, only the header.
EmptyStoreHeaderAndSentences ==
    (Exported /\ ex.totalImages = 0) =>
        LET rs == RecordsOf(Produced) IN
        /\ Len(rs) = 1 + Len(ex.sentences)
        /\ TypeOf(rs[1]) = Str(S_header)
        /\ Get(rs[1], K_count) = Num(0)
        /\ \A i \in 2..Len(rs) : TypeOf(rs[i]) = Str(S_sentence)

EmptyStoreWithSentenceExported ==
    /\ Exported
    /\ ex.snapshot = <<>>
    /\ ex.sentences # <<>>
    /\ Len(RecordsOf(Produced)) = 2

NonDecreasing(seq) == \A i, j \in DOMAIN seq : i <= j => seq[i] <= seq[j]

\* C8: the progress exportBackup reports never goes down and, once an
\* export of at least one item has delivered its document, ends at 100 --
\* also when the blob path ran after a direct-write step had failed.
ExportProgressEndsAt100 ==
    /\ NonDecreasing(ex.reported)
    /\ (Exported /\ ex.totalItems > 0) =>
           ex.reported # <<>> /\ ex.reported[Len(ex.reported)] = 100

Consumed == sq.pc = "done" /\ ~sq.early

SnapshotProgress ==
    /\ Len(sq.progress) = sq.processed
    /\ NonDecreasing(sq.progress)
    /\ (Consumed /\ sq.total >= 1) =>
           /\ Len(sq.progress) = sq.total
           /\ sq.progress[Len(sq.progress)] = 100

SnapshotWithAbsentKeyDone ==
    /\ Consumed
    /\ sq.total >= 2
    /\ \E k \in DOMAIN store : ~Truthy(store[k])
    /\ Len(sq.progress) = sq.total
    /\ sq.progress[Len(sq.progress)] = 100

\* ------------------------------------------------------------------------
\* Properties of exportBackup: cancellation and fallback
\* ------------------------------------------------------------------------

\* C11: when the user cancels the picker, exportBackup resolves, has written
\* no record to a file or to a blob, does not take the blob path and leaves
\* no file behind, partial or whole.
CancelWritesNothing ==
    ex.aborted =>
        /\ ex.pc = "done"
        /\ ex.result = "resolved"
        /\ ex.via = "none"
        /\ ex.chunks = <<>>
        /\ ex.processed = 0
        /\ <<files, writable>> = ex.start

PickerCancelled ==
    /\ ex.aborted
    /\ ex.pc = "done"
    /\ ex.totalItems > 0

\* C12: when a step of the direct path fails with another error than
\* AbortError, exportBackup still resolves, and the document it delivers
\* through the blob is whole -- the header, every sentence, every image of
\* the store -- however many records the direct path had written.
FallbackDeliversWhole ==
    ex.fellBack =>
        /\ ex.result # "rejected"
        /\ ex.pc = "done" =>
            /\ ex.result = "resolved"
            /\ ex.via = "blob"
            /\ LET rs == RecordsOf(Produced)
                   n == Len(ex.sentences)
               IN  /\ Len(rs) = 1 + n + Cardinality(DOMAIN ex.snapshot)
                   /\ TypeOf(rs[1]) = Str(S_header)
                   /\ \A i \in 1..n :
                       /\ TypeOf(rs[1 + i]) = Str(S_sentence)
                       /\ Get(rs[1 + i], K_id) = ex.sentences[i].id
                   /\ \A k \in DOMAIN ex.snapshot :
                       \E i \in DOMAIN rs :
                           /\ TypeOf(rs[i]) = Str(S_image)
                           /\ Get(rs[i], K_id) = k
                           /\ Get(rs[i], K_base64) = ex.snapshot[k]

FellBackAfterRecords ==
    /\ ex.fellBack
    /\ ex.pc = "done"
    /\ ex.sentences # <<>>
    /\ ex.snapshot # <<>>
    /\ Len(writable.data) > Len(Encode(HeaderStr(ex)))

\* ------------------------------------------------------------------------
\* Properties of importBackup: the dispatch by record shape
\* ------------------------------------------------------------------------

HasField(record, name) == record.t = "obj" /\ name \in DOMAIN record.f

IsSentenceRecord(record) == TypeOf(record) = Str(S_sentence)

\* A record with a type field that says neither sentence nor image.
TypedOther(record) ==
    HasField(record, K_type) /\ TypeOf(record) \notin {Str(S_sentence), Str(S_image)}

HasIdAndBase64(record) == Truthy(Get(record, K_id)) /\ Truthy(Get(record, K_base64))

\* C13: every record of type sentence gives one entry of restoredSentences,
\* in the order of the stream, with the record's id and text, status pending
\* and no imageUrl, whatever else the record carries, and no store write.
SentenceRecordsRestored ==
    im.pc = "returned" =>
        LET rs == RecordsOf(im.file)
            ss == SelectSeq(rs, IsSentenceRecord)
        IN  /\ im.m.restoredSentences =
                   [i \in DOMAIN ss |->
                       Sentence(Get(ss[i], K_id), Get(ss[i], K_text), "pending", Undefined)]
            /\ <<A, Y>> \notin Range(im.m.puts)
            /\ (\A i \in DOMAIN rs : IsSentenceRecord(rs[i])) =>
                   im.m.puts = <<>> /\ store = <<>>

SentenceWithExtrasRestored ==
    /\ im.pc = "returned"
    /\ LET rs == RecordsOf(im.file) IN
       /\ Len(rs) = MaxRecords
       /\ \A i \in DOMAIN rs : IsSentenceRecord(rs[i]) /\ HasField(rs[i], K_base64)
    /\ Len(im.m.restoredSentences) = MaxRecords
    /\ im.m.restoredSentences[1] = Sentence(A, Text1, "pending", Undefined)
    /\ store = <<>>

\* C14: a record whose type field is present and says neither sentence nor
\* image is ignored, also when it carries id and base64: no store write, no
\* imageCount increment, no legacy id.
OtherTypesIgnored ==
    im.pc = "returned" =>
        LET rs == RecordsOf(im.file) IN
        (\A i \in DOMAIN rs : TypedOther(rs[i])) =>
            /\ im.m.puts = <<>>
            /\ store = <<>>
            /\ im.m.imageCount = 0
            /\ im.m.legacyImageIds = <<>>

\* C15: a record that is the last line without a newline gives the store
\* writes, imageCount, restoredSentences and legacyImageIds it would give
\* followed by a newline.
LastLineSameRules ==
    (im.pc = "returned" /\ im.file[Len(im.file)] # NL) =>
        LET lines == FileLines(im.file)
            terminated == ImportLines(lines, ImIdle.m)
        IN  /\ im.m.puts = terminated.puts
            /\ im.m.imageCount = terminated.imageCount
            /\ im.m.restoredSentences = terminated.restoredSentences
            /\ im.m.legacyImageIds = terminated.legacyImageIds

\* C16: imageCount is the number of store writes the import made, for the
\* image records and the records without type that have id and base64, and
\* legacyImageIds lists, in the order of the stream, the ids of the written
\* records that have no type field.
ResultCounts ==
    im.pc = "returned" =>
        LET rs == RecordsOf(im.file)
            written == SelectSeq(rs, LAMBDA r : ~IsSentenceRecord(r) /\ HasIdAndBase64(r))
            typeless == SelectSeq(written, LAMBDA r : ~HasField(r, K_type))
        IN  /\ im.m.puts = [i \in DOMAIN written |->
                               <<Get(written[i], K_id), Get(written[i], K_base64)>>]
            /\ im.m.imageCount = Len(im.m.puts)
            /\ im.m.legacyImageIds = [i \in DOMAIN typeless |-> Get(typeless[i], K_id)]

\* ------------------------------------------------------------------------
\* Properties of importFromSQLite
\* ------------------------------------------------------------------------

\* C17: importFromSQLite fails with the invalid-format error for a buffer
\* that cannot be opened and with the invalid-schema error for a container
\* without a table images; in both cases it makes no put and the store is
\* as it was.
InvalidContainerRejected ==
    /\ (si.pc # "idle" /\ si.buffer.kind = "bytes") =>
           si.pc = "failed" /\ si.error = "format"
    /\ (si.pc # "idle" /\ si.buffer.kind = "db" /\ "images" \notin si.buffer.tables) =>
           /\ si.pc \in {"check", "failed"}
           /\ si.pc = "failed" => si.error = "schema"
    /\ si.pc = "failed" =>
           /\ si.puts = <<>>
           /\ store = si.before
           /\ ~si.open

SchemaRejected ==
    /\ si.pc = "failed"
    /\ si.error = "schema"
    /\ si.buffer.tables # {}
    /\ store # <<>>

\* C18: for a container with the table images, importFromSQLite puts every
\* row <<id, base64>> into the store and returns the number of rows; so
\* when every chunk of a finished snapshot export has been imported into an
\* empty store, the store holds every exported key with its value and no
\* other key.
ContainerRowsWritten ==
    /\ si.pc = "returned" =>
           /\ si.count = Len(si.buffer.rows)
           /\ si.puts = si.buffer.rows
           /\ \A i \in DOMAIN si.buffer.rows :
                  /\ HasKey(store, si.buffer.rows[i][1])
                  /\ store[si.buffer.rows[i][1]] = si.buffer.rows[i][2]
           /\ \A k \in DOMAIN si.before :
                  (\A i \in DOMAIN si.buffer.rows : si.buffer.rows[i][1] # k) =>
                      HasKey(store, k) /\ store[k] = si.before[k]
    /\ (si.restoring /\ Consumed /\ si.queue = <<>> /\ si.pc \in {"idle", "returned"}) =>
           /\ si.results = [j \in DOMAIN sq.chunks |-> Len(sq.chunks[j].rows)]
           /\ \A j \in DOMAIN sq.chunks : \A i \in DOMAIN sq.chunks[j].rows :
                  LET row == sq.chunks[j].rows[i] IN
                  /\ HasKey(store, row[1])
                  /\ store[row[1]] = row[2]
                  /\ si.origin[row[1]] = row[2]
           /\ DOMAIN store = {k \in DOMAIN si.origin : Truthy(si.origin[k])}

ChunksRestored ==
    /\ si.restoring
    /\ Consumed
    /\ si.queue = <<>>
    /\ si.pc = "returned"
    /\ Len(si.results) >= 2
    /\ Cardinality(DOMAIN store) > CHUNK_SIZE

\* ------------------------------------------------------------------------
\* Properties of the image store
\* ------------------------------------------------------------------------

\* The calls of the log, up to call n, that wrote or deleted key k.
WritesOf(k, n) ==
    {i \in 1..n : calls.log[i].key = k /\ calls.log[i].op \in {"save", "delete"}}

\* The value of the most recent saveImage(k, v) among the first n calls that
\* no deleteImage(k) followed, null when there is none.
MostRecent(k, n) ==
    LET ws == WritesOf(k, n) IN
    IF ws = {} THEN Null
    ELSE LET last == CHOOSE i \in ws : \A j \in ws : j <= i IN
         IF calls.log[last].op = "save" THEN calls.log[last].value ELSE Null

\* C19: after any sequence of saveImage, getImage and deleteImage calls,
\* getImage(k) resolves with the value of the most recent saveImage(k, v)
\* that no deleteImage(k) followed, whatever string v is, and with null for
\* a key never written or deleted since.
GetImageReturnsMostRecent ==
    LET n == Len(calls.log) IN
    (n > 0 /\ calls.log[n].op = "get") =>
        calls.got = MostRecent(calls.log[n].key, n)

\* ------------------------------------------------------------------------
\* Properties of the merge of handleBackupImport
\* ------------------------------------------------------------------------

NoTwoWithSameId(ss) == \A i, j \in DOMAIN ss : ss[i].id = ss[j].id => i = j

EntriesWith(ss, id) == {ss[i] : i \in {j \in DOMAIN ss : ss[j].id = id}}

\* C20, as stated: the merged list has no two entries with the same id, has
\* unchanged every sentence of the list as it was whose id is not among the
\* restored sentences, and for an id among the restored sentences has
\* exactly a restored record, pending and without imageUrl.
MergeKeepsEveryExisting ==
    im.pc = "merged" =>
        /\ NoTwoWithSameId(sentences)
        /\ \A i \in DOMAIN im.prev :
               im.prev[i].id \notin Ids(im.m.restoredSentences) =>
                   im.prev[i] \in Range(sentences)
        /\ \A id \in Ids(im.m.restoredSentences) :
               \E r \in Range(im.m.restoredSentences) :
                   /\ r.id = id
                   /\ r.status = "pending"
                   /\ r.imageUrl = Undefined
                   /\ EntriesWith(sentences, id) = {r}

\* C20: the merged list has no two entries with the same id; for an id of
\* the list as it was that is not among the restored sentences it has,
\* unchanged, the last sentence the list had with that id (an earlier one
\* with the same id is dropped); for an id among the restored sentences it
\* has exactly the last restored record with that id, pending and without
\* imageUrl, whatever the entry it replaces held.
MergeKeepsLastExisting ==
    im.pc = "merged" =>
        /\ NoTwoWithSameId(sentences)
        /\ \A id \in Ids(im.prev) \ Ids(im.m.restoredSentences) :
               EntriesWith(sentences, id) = {LastWith(im.prev, id)}
        /\ \A id \in Ids(im.m.restoredSentences) :
               LET r == LastWith(im.m.restoredSentences, id) IN
               /\ r.status = "pending"
               /\ r.imageUrl = Undefined
               /\ EntriesWith(sentences, id) = {r}

\* A restored sentence has replaced a completed entry that had an image,
\* beside an entry of another id.
CompletedEntryReplaced ==
    /\ im.pc = "merged"
    /\ \E i, j \in DOMAIN im.prev :
        /\ im.prev[i].id \in Ids(im.m.restoredSentences)
        /\ im.prev[i].status = "completed"
        /\ im.prev[i].imageUrl # Undefined
        /\ im.prev[j].id \notin Ids(im.m.restoredSentences)

\* ------------------------------------------------------------------------
\* Properties of exportToSQLiteChunks under deletes and failing fetches
\* ------------------------------------------------------------------------

RowIds(rows) == {rows[i][1] : i \in DOMAIN rows}

\* C21: every chunk exportToSQLiteChunks yields holds exactly the keys of
\* its batch for which getImage gave a value when it was fetched, each with
\* that value; a key deleted after the keys were listed is left out without
\* an error, and processed has advanced by one for every key of the batch,
\* found or not.
SkipsAbsentKeys ==
    /\ \A j \in DOMAIN sq.chunks :
        LET c == sq.chunks[j] IN
        /\ [i \in DOMAIN c.fetched |-> c.fetched[i][1]] = c.keys
        /\ c.rows = SelectSeq(c.fetched, LAMBDA f : Truthy(f[2]))
        /\ c.processed = (j - 1) * CHUNK_SIZE + Len(c.keys)
        /\ \A i \in DOMAIN c.keys :
               c.keys[i] \notin RowIds(c.rows) =>
                   \/ c.keys[i] \in Range(sq.deleted)
                   \/ GetImage(store, c.keys[i]) = Null
    /\ sq.pc = "fetch" => sq.processed = sq.i + Len(sq.fetched)
    /\ sq.error => sq.pc = "failed"

DeletedKeySkipped ==
    /\ sq.pc = "done"
    /\ ~sq.error
    /\ Len(sq.chunks) = 2
    /\ \E k \in Range(sq.deleted) :
        /\ k \in Range(sq.chunks[2].keys)
        /\ k \notin RowIds(sq.chunks[2].rows)
    /\ sq.processed = sq.total

\* C22: while exportToSQLiteChunks runs at most one container is open; the
\* container of a chunk is closed before the next one is opened, and none
\* is open once the generator has ended, be it at its end, by a failing
\* getImage or by the consumer's return.
OneContainerOpen ==
    /\ Cardinality(sq.containers) <= 1
    /\ sq.pc \in {"fetch", "yielded"} => sq.containers = {sq.i}
    /\ sq.pc \in {"idle", "loop", "done", "failed"} => sq.containers = {}
    /\ sq.open <=> sq.containers # {}

ClosedAfterFailure ==
    /\ sq.pc = "failed"
    /\ sq.error
    /\ sq.i = CHUNK_SIZE
    /\ sq.containers = {}

\* ------------------------------------------------------------------------
\* Properties of the progress of exportBackup and importBackup
\* ------------------------------------------------------------------------

\* C23: exportBackup increments processed once for every sentence and every
\* key of the image store, so that a delivered export has counted exactly
\* sentence-count + image-count items, and it calls onProgress only when
\* processed is a multiple of 50 or equals sentence-count + image-count.
ProcessedOncePerItem ==
    /\ \A i \in DOMAIN ex.reportedAt :
           \/ ex.reportedAt[i] % 50 = 0
           \/ ex.reportedAt[i] = Len(ex.sentences) + ex.totalImages
    /\ ex.processed <= Len(ex.sentences) + ex.totalImages
    /\ Exported => ex.processed = Len(ex.sentences) + ex.totalImages

\* C24: importBackup calls onProgress once for every read, after the lines
\* the read completes have been processed, with the percentage of the bytes
\* read so far rounded to the nearest integer; the values never go down and
\* the last one is 100 for a file that is not empty.
ImportProgressPerRead ==
    im.pc \in {"reading", "returned"} =>
        /\ im.progress.calls = im.reads
        /\ im.progress.ordered
        /\ im.progress.calls > 0 =>
               LET d == im.progress.last * Len(im.file) - 100 * im.processedBytes IN
               /\ 2 * d <= Len(im.file)
               /\ -2 * d <= Len(im.file)
        /\ (im.pc = "returned" /\ Len(im.file) > 0) =>
               im.progress.calls > 0 /\ im.progress.last = 100

TwoReadsReported ==
    /\ im.pc = "returned"
    /\ im.reads = 2
    /\ im.split
    /\ im.m.puts # <<>>
    /\ im.progress.calls = 2
    /\ im.progress.last = 100

\* ------------------------------------------------------------------------
\* Properties of the sync effect and of startBatch
\* ------------------------------------------------------------------------

\* C25, as stated: the updater of the sync effect leaves every sentence
\* whose status is processing as it is, be its id among the keys read from
\* the store or not.
SyncKeepsProcessing ==
    \A i \in DOMAIN sy.prev :
        sy.prev[i].status = "processing" => sy.after[i] = sy.prev[i]

\* C25: the updater of the sync effect leaves a sentence whose status is
\* processing as it is when its id is not among the keys read from the
\* store, and sets its status to completed, every other field unchanged,
\* when its id is among them.
SyncCompletesProcessingWithKey ==
    \A i \in DOMAIN sy.prev :
        sy.prev[i].status = "processing" =>
            sy.after[i] = IF sy.prev[i].id \in Range(sy.used)
                          THEN [sy.prev[i] EXCEPT !.status = "completed"]
                          ELSE sy.prev[i]

ProcessingWithKeySynced ==
    /\ sy.syncs > 0
    /\ \E i \in DOMAIN sy.prev :
        /\ sy.prev[i].status = "processing"
        /\ sy.prev[i].id \in Range(sy.used)
        /\ sy.after[i].status = "completed"

\* C28: when the sync effect has applied its updater with the keys K it
\* read, every sentence whose id is in K is completed, no sentence whose id
\* is not in K is completed, a pending or error sentence whose id is not in
\* K is unchanged, and the list has the same sentences in the same order,
\* only statuses differing.
SyncConsistent ==
    /\ DOMAIN sy.after = DOMAIN sy.prev
    /\ \A i \in DOMAIN sy.prev :
        LET s == sy.prev[i]
            t == sy.after[i]
        IN  /\ t = [s EXCEPT !.status = t.status]
            /\ s.id \in Range(sy.used) => t.status = "completed"
            /\ s.id \notin Range(sy.used) => t.status # "completed"
            /\ (s.id \notin Range(sy.used) /\ s.status \in {"pending", "error"}) => t = s

StaleCompletedReverted ==
    /\ sy.syncs > 0
    /\ \E i \in DOMAIN sy.prev :
        /\ sy.prev[i].status = "completed"
        /\ sy.prev[i].id \notin Range(sy.used)
        /\ sy.after[i].status = "pending"
    /\ \E i \in DOMAIN sy.prev :
        /\ sy.prev[i].status # "completed"
        /\ sy.prev[i].id \in Range(sy.used)

\* C30: startBatch selects at most batchSize sentences, none of them
\* completed; it makes at most 3 attempts for each; it sets a sentence to
\* completed only after saveImage has succeeded for it and to error exactly
\* when 3 attempts have failed; and the generation status is RUNNING while
\* the batch runs and IDLE once it has ended.
BatchRetries ==
    /\ bt.pc # "idle" =>
           /\ Len(bt.pending) <= bt.batchSize
           /\ \A i \in DOMAIN bt.pending : bt.pending[i].status # "completed"
    /\ bt.attempts <= maxRetries
    /\ \A j \in DOMAIN bt.log :
        LET e == bt.log[j] IN
        /\ e.failed + (IF e.saved THEN 1 ELSE 0) <= 3
        /\ e.completed => e.saved
        /\ e.error <=> e.failed = 3
        /\ ~(e.error /\ e.completed)
    /\ bt.pc \in {"loop", "generating", "saved"} => bt.status = "RUNNING"
    /\ bt.pc = "done" =>
           /\ bt.status = "IDLE"
           /\ Len(bt.log) = Len(bt.pending)
           /\ \A j \in DOMAIN bt.log : bt.log[j].error \/ bt.log[j].completed

BatchEndedWithErrorAndRetry ==
    /\ bt.pc = "done"
    /\ Len(bt.log) = 2
    /\ bt.log[1].error
    /\ bt.log[2].completed
    /\ bt.log[2].failed = 2

\* ------------------------------------------------------------------------
\* Properties of importBackup: read boundaries and failing puts
\* ------------------------------------------------------------------------

\* What importBackup returns, and the puts it makes, when the whole file
\* comes in one read.
OneRead(file, m) ==
    LET lines == Split(Decode(<<>>, file).text) IN
    ImportLeftover(lines[Len(lines)], ImportLines(SubSeq(lines, 1, Len(lines) - 1), m))

\* C27: for the bytes of a file, imageCount, restoredSentences,
\* legacyImageIds and the sequence of store writes of importBackup are those
\* of the import that gets the whole file in one read, wherever the reads
\* end -- inside a line or inside a character.
ReadBoundaryIndependent ==
    (im.pc = "returned" /\ im.m.failing = {}) =>
        LET one == OneRead(im.file, [ImIdle.m EXCEPT !.store = im.before]) IN
        /\ im.m.imageCount = one.imageCount
        /\ im.m.restoredSentences = one.restoredSentences
        /\ im.m.legacyImageIds = one.legacyImageIds
        /\ im.m.puts = one.puts
        /\ store = one.store

SplitInsideCharacter ==
    /\ im.pc = "returned"
    /\ im.reads = 2
    /\ im.split
    /\ im.sawPending
    /\ im.m.restoredSentences # <<>>
    /\ im.m.puts # <<>>

\* C26: when the store rejects the put of an image or legacy record,
\* importBackup does not fail and goes on with the records that follow; the
\* rejected record is not counted in imageCount, its id is not added to
\* legacyImageIds and the store does not change for it.
PutFailureIsolated ==
    /\ im.pc # "failed"
    /\ im.pc = "returned" =>
        LET lines == FileLines(im.file)
            legacyPuts == SelectSeq(im.m.puts, LAMBDA q : q = <<B, Y>>)
        IN  /\ Len(im.m.puts) + Len(im.m.rejected) = Len(ExpectedPuts(lines))
            /\ \A i \in DOMAIN im.m.rejected : im.m.rejected[i][1] \in im.m.failing
            /\ im.m.imageCount = Len(im.m.puts)
            /\ im.m.legacyImageIds = [i \in DOMAIN legacyPuts |-> B]
            /\ im.m.restoredSentences = ExpectedSentences(lines)
            /\ \A k \in DOMAIN store : \E i \in DOMAIN im.m.puts : im.m.puts[i][1] = k
            /\ \A i \in DOMAIN im.m.puts : HasKey(store, im.m.puts[i][1])

PutAfterRejectedPut ==
    /\ im.pc = "returned"
    /\ FileLines(im.file)[1] = LegacyLine
    /\ im.m.rejected = << <<B, Y>> >>
    /\ im.m.puts = << <<A, X>> >>
    /\ im.m.legacyImageIds = <<>>

\* ------------------------------------------------------------------------
\* Properties of exportBackup under deletes
\* ------------------------------------------------------------------------

ImageRecords(doc) ==
    SelectSeq(RecordsOf(doc), LAMBDA r : TypeOf(r) = Str(S_image))

\* C29: the count of the header exportBackup writes is the number of image
\* records that follow it in the document, also when a key is deleted from
\* the store while the export runs.
HeaderCountIsImageRecords ==
    Exported =>
        Get(RecordsOf(Produced)[1], K_count) = Num(Len(ImageRecords(Produced)))
====
